---------------------------- MODULE Spec2Model ----------------------------
(***************************************************************************)
(* A model of the retail-and-lead-analytics repository:                    *)
(*   generate_data.py      the retail and lead generators,                 *)
(*   create_dashboards.py  the dashboard renderer.                         *)
(*                                                                         *)
(* Dates are day offsets from START_DATE (2024-07-04, a Thursday), so      *)
(* END_DATE is day 180.  Money is an integer number of cents, or of        *)
(* 1/SubCent cents before rounding.  Random draws are choices (\E) over    *)
(* the values the draw can return.                                         *)
(*                                                                         *)
(* The module holds several specifications over one set of variables; the  *)
(* variables a specification does not use keep their idle value.           *)
(*   Spec        generate_retail_data: the day loop and the stock ledger   *)
(*   SpecPrice   generate_retail_data: the store, price and revenue fields *)
(*               of one record, for every draw of store, price, quantity   *)
(*   SpecDemand  generate_retail_data: the multipliers and the expected     *)
(*               number of transactions of every product on every day      *)
(*   SpecLog     either generator with its list of records kept whole,     *)
(*               up to MaxLog records                                      *)
(*   SpecLead    generate_lead_data: the day loop and the lead records     *)
(*   SpecLedger  generate_retail_data: the stock ledger of a product of     *)
(*               each popularity, and of two products together            *)
(*   SpecIds     the identifiers and dates of the records of a generator   *)
(*   SpecDays    main: the day loops of the two generators, one after the   *)
(*               other, under weak fairness of the thread                  *)
(*   SpecStage   generate_lead_data: the rep, the conversion probability   *)
(*               and the stage of one lead, for every source               *)
(*   SpecSeed    two runs of generate_data.py, each a process of its own,  *)
(*               with the states of the two random sources                 *)
(*   SpecRender  create_dashboards.py: main over the file system, run      *)
(*               once or again, while the clock advances                   *)
(*   SpecDash    the script of a rendered dashboard in the browser: the    *)
(*               filters and the revenue KPI                               *)
(***************************************************************************)
EXTENDS Integers, Sequences, FiniteSets, TLC

VARIABLES
    \* generate_retail_data
    current_date,       \* days_from_start of the day being simulated
    pc,                 \* position in the day loop: sell, restock, done, cut
    cursor,             \* index of the product the inner for loop is at
    product_stock,      \* the stock ledger: product name -> stock
    transactions,       \* the records appended so far: the most recent one is kept
    \* generate_retail_data, the priced fields of one record
    price_draw,         \* the draws of one loop iteration: product, store, quantity, price
    priced,             \* the priced fields of the record appended for them
    \* generate_retail_data, the expected number of transactions
    demand_date,        \* days_from_start of the day loop
    demand_pc,          \* position in the loops: season, expect, sell, day, done
    category_cursor,    \* index of the category the outer for loop is at
    product_cursor,     \* index of the product the inner for loop is at
    seasonal_mult,      \* seasonal_mult of the category, in hundredths
    trend_mult,         \* trend_mult of the product, in 1/1800
    expected,           \* expected, in 1/18000000
    \* generate_lead_data, the sales rep and the stage of one lead
    draw_pc,            \* position in the loop body: rep, stage, made
    draw_source,        \* profile of the source of the lead
    draw_days,          \* days_since_created
    sales_rep,          \* the rep random.choices assigns
    conversion_prob,    \* conversion_prob, in percent
    roll,               \* random.random() of the decision tree, in hundredths, as <<r>>
    drawn_stage,        \* stage, as <<stage>>
    \* generate_retail_data, the stock ledger of a table of products
    followed,           \* the products of CATEGORIES the run has
    sales_cap,          \* sales still followed, NoCap when every sale is
    \* the identifiers of the records of a generator
    id_pc,              \* the generator that runs: retail or lead, then done
    id_date,            \* current_date of the generator
    transaction_id,     \* transaction_id, the counter of generate_retail_data
    lead_id,            \* lead_id, the counter of generate_lead_data
    id_rows,            \* the identifier and the date of the records appended
    \* generate_lead_data
    lead_date,          \* current_date of the lead loop, as days from START_DATE
    lead_pc,            \* position in the day loop: count, make, done
    source_cursor,      \* index of the source the for loop is at
    base_leads,         \* the mean of the source's daily count
    num_leads,          \* iterations left of `for _ in range(num_leads)`
    leads,              \* the records appended on the day simulated: the most recent one is kept
    \* generate_data.py run as a process, for each of two runs
    os_entropy,         \* what the operating system would seed each random source with
    gen_pc,             \* position of the process: load, retail, lead, save, done
    random_state,       \* state of the `random` module's generator
    np_random_state,    \* state of np.random's generator
    gen_day,            \* days_from_start of the generator that is running
    gen_stock,          \* product_stock of generate_retail_data
    retail_df,          \* the retail records appended so far
    leads_df,           \* the lead records appended so far
    saved,              \* the tables written to the data directory
    \* create_dashboards.py
    clock,              \* the wall clock
    data_files,         \* the two CSV files of the data directory: <<table>>, or <<>> when missing
    dashboards,         \* the dashboards directory and its two HTML files
    render_pc,          \* position of main
    frames,             \* retail_df and leads_df of main
    pages,              \* retail_html and lead_html of main
    reads,              \* the files this run of main has read
    writes,             \* the files this run of main has written
    stdout,             \* the diagnostics this run of main has printed
    rendered,           \* every call of a create_*_dashboard function so far
    invocations,        \* how many times main has been run
    \* the script of a rendered dashboard
    dashboard,          \* the page that is open: retail or lead
    dash_pc,            \* loading until DOMContentLoaded, then ready
    rawData,            \* const rawData
    filteredData,       \* let filteredData
    selects,            \* the value of each filter's <select> element
    currentFilters,     \* let currentFilters
    kpiRevenue          \* the text of #kpiRevenue after the '$', as <<text>>

retailVars == <<current_date, pc, cursor, product_stock, transactions>>

priceVars == <<price_draw, priced>>

demandVars ==
    <<demand_date, demand_pc, category_cursor, product_cursor, seasonal_mult,
      trend_mult, expected>>

stageVars ==
    <<draw_pc, draw_source, draw_days, sales_rep, conversion_prob, roll, drawn_stage>>

ledgerVars == <<followed, sales_cap>>

idVars == <<id_pc, id_date, transaction_id, lead_id, id_rows>>

leadVars == <<lead_date, lead_pc, source_cursor, base_leads, num_leads, leads>>

seedVars ==
    <<os_entropy, gen_pc, random_state, np_random_state, gen_day, gen_stock,
      retail_df, leads_df, saved>>

renderVars ==
    <<clock, data_files, dashboards, render_pc, frames, pages, reads, writes,
      stdout, rendered, invocations>>

dashVars ==
    <<dashboard, dash_pc, rawData, filteredData, selects, currentFilters,
      kpiRevenue>>

vars ==
    <<retailVars, priceVars, demandVars, leadVars, seedVars, renderVars, dashVars,
      stageVars,
      ledgerVars,
      idVars>>

----------------------------------------------------------------------------
(* Bounds of the model *)

\* days simulated by Spec: days 0..MaxDay of the window (day 4 is the first Monday)
MaxDay == 5

\* prices before rounding are whole multiples of 1/SubCent cent
SubCent == 4

\* largest value drawn for np.random.poisson(base_leads) in SpecLead
MaxLeads == 1

\* deal values drawn: the DealSpan + 1 lowest and the DealSpan + 1 highest
DealSpan == 1

\* values of the operating system's entropy in SpecSeed
MaxEntropy == 2

\* days simulated by each generator in SpecSeed: days 0..SeedDays
SeedDays == 3

\* largest count np.random.poisson returns in SpecSeed
MaxCount == 2

\* largest number of rows of a table SpecRender renders
MaxRows == 2

\* the clock of SpecRender runs from 0 to MaxClock
MaxClock == 2

\* times create_dashboards.py is run in SpecRender
MaxRuns == 2

\* the longest list of records SpecLog follows
MaxLog == 2

\* the last day of generate_lead_data SpecLog follows
MaxLeadDay == 1

\* random.uniform(a, b) of a multiplier returns a + (b - a) * k / Grain for
\* k in 0..Grain
Grain == 2

----------------------------------------------------------------------------
(* Configuration: generate_data.py lines 46-161 *)

\* END_DATE - START_DATE in days
WindowDays == 180

\* START_DATE.weekday(): 2024-07-04 is a Thursday (Monday is 0)
StartWeekday == 3

Max(a, b) == IF a >= b THEN a ELSE b

Min(a, b) == IF a <= b THEN a ELSE b

Weekday(d) == (StartWeekday + d) % 7

\* date.month of day d of the window: 2024-07-04 .. 2024-12-31
Month(d) ==
    IF d < 28 THEN 7 ELSE IF d < 59 THEN 8 ELSE IF d < 89 THEN 9
    ELSE IF d < 120 THEN 10 ELSE IF d < 150 THEN 11 ELSE 12

\* date.day of day d of the window
DayOfMonth(d) ==
    IF d < 28 THEN d + 4 ELSE IF d < 59 THEN d - 27 ELSE IF d < 89 THEN d - 58
    ELSE IF d < 120 THEN d - 88 ELSE IF d < 150 THEN d - 119 ELSE d - 149

IsMonday(d) == Weekday(d) = 0

\* The products Spec follows, in the order of CATEGORIES
Products ==
    << [name |-> "Tablet Stand Adjustable", category |-> "Electronics",
        base_price |-> 35, popularity |-> "low", trend |-> "declining"] >>

ProductNames == {Products[i].name : i \in 1..Len(Products)}

\* base_stock = 500 if high else 300 if medium else 200
BaseStock(product) ==
    IF product.popularity = "high" THEN 500
    ELSE IF product.popularity = "medium" THEN 300
    ELSE 200

\* random.choices([1, 2, 3, 4, 5], weights=[60, 25, 10, 3, 2])
Quantities == 1..5

----------------------------------------------------------------------------
(* generate_retail_data *)

StockAfterSale_unfloored(stock, quantity) == stock - quantity

\* product_stock[name] = max(0, product_stock[name] - quantity)
StockAfterSale(stock, quantity) == Max(0, stock - quantity)

RecordedStock_before(before, after) == before

\* 'stock_level': product_stock[product['name']], read after the update
RecordedStock(before, after) == after

\* the fields of the appended record that Spec follows
SaleRecord(product, quantity, before, after, date) ==
    [product_name |-> product.name,
     category     |-> product.category,
     quantity     |-> quantity,
     stock_level  |-> RecordedStock(before, after),
     date         |-> date]

\* the tail of the list kept in the state
Recent(records) ==
    IF Len(records) > 1 THEN <<records[Len(records)]>> ELSE records

RestockAmounts_always(stock) == IF stock < 100 THEN 50..150 ELSE 30..80

\* random.randint(50, 150) below 100, random.randint(30, 80) below 200
RestockAmounts(stock) ==
    IF stock < 100 THEN 50..150
    ELSE IF stock < 200 THEN 30..80
    ELSE {0}

\* where the while loop goes after current_date += timedelta(days=1)
LoopPc(date) ==
    IF date > WindowDays THEN "done"
    ELSE IF date > MaxDay THEN "cut"
    ELSE "sell"

\* the variables of generate_retail_data while another specification runs
RetailIdle ==
    /\ current_date = 0
    /\ pc = "idle"
    /\ cursor = 1
    /\ product_stock = [n \in ProductNames |-> 0]
    /\ transactions = <<>>

RetailFrame == UNCHANGED <<priceVars, demandVars, leadVars, seedVars, renderVars, dashVars, stageVars, ledgerVars, idVars>>

RetailInit ==
    /\ current_date = 0
    /\ pc = "sell"
    /\ cursor = 1
    /\ product_stock = [n \in ProductNames |->
            BaseStock(CHOOSE p \in {Products[i] : i \in 1..Len(Products)} : p.name = n)]
    /\ transactions = <<>>

\* one iteration of `for _ in range(num_transactions)`: num_transactions is
\* np.random.poisson(expected) with expected > 0, which can be any natural
\* number, so the loop body runs any number of times for a product and day
Sale ==
    /\ pc = "sell"
    /\ \E quantity \in Quantities :
         LET product == Products[cursor]
             before  == product_stock[product.name]
             after   == StockAfterSale(before, quantity)
         IN  /\ product_stock' = [product_stock EXCEPT ![product.name] = after]
             /\ transactions' = Recent(Append(transactions,
                    SaleRecord(product, quantity, before, after, current_date)))
    /\ UNCHANGED <<current_date, pc, cursor>>
    /\ RetailFrame

\* range(num_transactions) is exhausted: the inner for loop moves to the next
\* product, or the day's sales end
NextProduct ==
    /\ pc = "sell"
    /\ IF cursor < Len(Products)
       THEN cursor' = cursor + 1 /\ pc' = "sell"
       ELSE cursor' = 1 /\ pc' = "restock"
    /\ UNCHANGED <<current_date, product_stock, transactions>>
    /\ RetailFrame

\* one iteration of `for product_name in product_stock`, on a Monday
Restock ==
    /\ pc = "restock"
    /\ IsMonday(current_date)
    /\ cursor <= Len(Products)
    /\ LET name == Products[cursor].name
       IN  \E amount \in RestockAmounts(product_stock[name]) :
             product_stock' = [product_stock EXCEPT ![name] = @ + amount]
    /\ cursor' = cursor + 1
    /\ UNCHANGED <<current_date, pc, transactions>>
    /\ RetailFrame

\* current_date += timedelta(days=1), then the while condition
NextDay ==
    /\ pc = "restock"
    /\ ~IsMonday(current_date) \/ cursor > Len(Products)
    /\ current_date' = current_date + 1
    /\ pc' = LoopPc(current_date + 1)
    /\ cursor' = 1
    /\ UNCHANGED <<product_stock, transactions>>
    /\ RetailFrame

RetailNext ==
    \/ Sale
    \/ NextProduct
    \/ Restock
    \/ NextDay

----------------------------------------------------------------------------
(* generate_retail_data: the store, the price and the revenue of a record *)

\* STORE_PROFILES: every store has a positive weight for every category
Stores ==
    {"Downtown Flagship", "Mall Central", "Suburban Plaza", "Airport Express",
     "Outlet Store"}

\* the products SpecPrice prices
PricedProducts ==
    { [name |-> "Protein Shaker Bottle", category |-> "Sports", base_price |-> 15],
      [name |-> "Jump Rope Speed", category |-> "Sports", base_price |-> 18] }

\* the bounds of random.uniform, in percent of the base price
FactorLow(store) == IF store = "Outlet Store" THEN 70 ELSE 95

FactorHigh_no_discount(store) == 105

FactorHigh(store) == IF store = "Outlet Store" THEN 85 ELSE 105

\* price = base_price * random.uniform(low, high), in 1/SubCent cents
Prices(base_price, store) ==
    (base_price * FactorLow(store) * SubCent) ..
        (base_price * FactorHigh(store) * SubCent)

\* round(x, 2) of an amount x given in 1/SubCent cents: the nearest cent, a
\* tie going to the even cent
Round2(x) ==
    LET q == x \div SubCent
        r == x % SubCent
    IN  IF 2 * r < SubCent THEN q
        ELSE IF 2 * r > SubCent THEN q + 1
        ELSE IF q % 2 = 0 THEN q ELSE q + 1

\* 'unit_price': round(price, 2), 'total_revenue': round(price * quantity, 2)
PricedRecord(draw) ==
    [product_name  |-> draw.product.name,
     store         |-> draw.store,
     quantity      |-> draw.quantity,
     unit_price    |-> Round2(draw.price),
     total_revenue |-> Round2(draw.price * draw.quantity)]

PriceIdle ==
    /\ price_draw = <<>>
    /\ priced = <<>>

\* the draws of one iteration of the transaction loop
PriceInit ==
    /\ \E product \in PricedProducts, store \in Stores, quantity \in Quantities :
         \E price \in Prices(product.base_price, store) :
           price_draw = [product |-> product, store |-> store,
                         quantity |-> quantity, price |-> price]
    /\ priced = <<>>

\* transactions.append({...}) for these draws
EmitPriced ==
    /\ price_draw # <<>>
    /\ priced = <<>>
    /\ priced' = PricedRecord(price_draw)
    /\ UNCHANGED <<price_draw, retailVars, demandVars, leadVars, seedVars, renderVars, dashVars, stageVars, ledgerVars, idVars>>

----------------------------------------------------------------------------
(* generate_retail_data: the expected number of transactions of a product *)

\* CATEGORIES, base_demand in tenths
CATEGORIES ==
    << [name |-> "Electronics",
        products |->
          << [name |-> "Wireless Earbuds Pro", base_price |-> 149, popularity |-> "high", trend |-> "hot"],
             [name |-> "Smart Watch Series X", base_price |-> 299, popularity |-> "high", trend |-> "growing"],
             [name |-> "4K Webcam", base_price |-> 89, popularity |-> "medium", trend |-> "stable"],
             [name |-> "Portable Charger 20K", base_price |-> 45, popularity |-> "high", trend |-> "stable"],
             [name |-> "Bluetooth Speaker Mini", base_price |-> 79, popularity |-> "medium", trend |-> "stable"],
             [name |-> "USB-C Hub Pro", base_price |-> 65, popularity |-> "medium", trend |-> "growing"],
             [name |-> "Noise Canceling Headphones", base_price |-> 249, popularity |-> "high", trend |-> "hot"],
             [name |-> "Tablet Stand Adjustable", base_price |-> 35, popularity |-> "low", trend |-> "declining"],
             [name |-> "Wireless Mouse Ergonomic", base_price |-> 55, popularity |-> "medium", trend |-> "stable"],
             [name |-> "LED Desk Lamp Smart", base_price |-> 75, popularity |-> "medium", trend |-> "growing"] >>,
        seasonal_peak |-> {11, 12},
        base_demand |-> 13],
       [name |-> "Clothing",
        products |->
          << [name |-> "Premium Cotton T-Shirt", base_price |-> 35, popularity |-> "high", trend |-> "stable"],
             [name |-> "Slim Fit Jeans", base_price |-> 75, popularity |-> "high", trend |-> "stable"],
             [name |-> "Winter Jacket Insulated", base_price |-> 189, popularity |-> "medium", trend |-> "seasonal"],
             [name |-> "Running Sneakers Pro", base_price |-> 129, popularity |-> "high", trend |-> "growing"],
             [name |-> "Casual Hoodie", base_price |-> 65, popularity |-> "high", trend |-> "stable"],
             [name |-> "Formal Dress Shirt", base_price |-> 55, popularity |-> "medium", trend |-> "declining"],
             [name |-> "Athletic Shorts", base_price |-> 40, popularity |-> "medium", trend |-> "stable"],
             [name |-> "Wool Sweater Classic", base_price |-> 95, popularity |-> "medium", trend |-> "seasonal"],
             [name |-> "Canvas Sneakers", base_price |-> 55, popularity |-> "medium", trend |-> "stable"],
             [name |-> "Baseball Cap Logo", base_price |-> 28, popularity |-> "low", trend |-> "stable"] >>,
        seasonal_peak |-> {10, 11, 12},
        base_demand |-> 10],
       [name |-> "Home & Kitchen",
        products |->
          << [name |-> "Air Fryer Digital 5L", base_price |-> 119, popularity |-> "high", trend |-> "hot"],
             [name |-> "Coffee Maker Programmable", base_price |-> 89, popularity |-> "high", trend |-> "stable"],
             [name |-> "Knife Set Professional", base_price |-> 149, popularity |-> "medium", trend |-> "stable"],
             [name |-> "Non-Stick Pan Set", base_price |-> 79, popularity |-> "medium", trend |-> "stable"],
             [name |-> "Blender High-Speed", base_price |-> 99, popularity |-> "medium", trend |-> "stable"],
             [name |-> "Instant Pot Multi-Use", base_price |-> 129, popularity |-> "high", trend |-> "growing"],
             [name |-> "Toaster 4-Slice", base_price |-> 55, popularity |-> "low", trend |-> "declining"],
             [name |-> "Food Storage Set", base_price |-> 45, popularity |-> "medium", trend |-> "stable"],
             [name |-> "Electric Kettle", base_price |-> 40, popularity |-> "medium", trend |-> "stable"],
             [name |-> "Kitchen Scale Digital", base_price |-> 25, popularity |-> "low", trend |-> "stable"] >>,
        seasonal_peak |-> {11, 12},
        base_demand |-> 9],
       [name |-> "Beauty",
        products |->
          << [name |-> "Vitamin C Serum", base_price |-> 45, popularity |-> "high", trend |-> "hot"],
             [name |-> "Hair Dryer Professional", base_price |-> 129, popularity |-> "high", trend |-> "growing"],
             [name |-> "Moisturizer Daily SPF", base_price |-> 38, popularity |-> "high", trend |-> "growing"],
             [name |-> "Perfume Signature 50ml", base_price |-> 85, popularity |-> "medium", trend |-> "stable"],
             [name |-> "Makeup Brush Set", base_price |-> 55, popularity |-> "medium", trend |-> "stable"],
             [name |-> "Face Mask Hydrating", base_price |-> 28, popularity |-> "high", trend |-> "hot"],
             [name |-> "Curling Iron Ceramic", base_price |-> 75, popularity |-> "medium", trend |-> "stable"],
             [name |-> "Nail Polish Set", base_price |-> 32, popularity |-> "low", trend |-> "stable"],
             [name |-> "Electric Shaver", base_price |-> 89, popularity |-> "medium", trend |-> "stable"],
             [name |-> "Lip Balm Collection", base_price |-> 18, popularity |-> "medium", trend |-> "stable"] >>,
        seasonal_peak |-> {11, 12, 2},
        base_demand |-> 11],
       [name |-> "Sports",
        products |->
          << [name |-> "Yoga Mat Premium", base_price |-> 45, popularity |-> "high", trend |-> "growing"],
             [name |-> "Dumbbell Set Adjustable", base_price |-> 199, popularity |-> "medium", trend |-> "stable"],
             [name |-> "Fitness Tracker Band", base_price |-> 79, popularity |-> "high", trend |-> "growing"],
             [name |-> "Resistance Bands Set", base_price |-> 28, popularity |-> "high", trend |-> "hot"],
             [name |-> "Water Bottle Insulated", base_price |-> 32, popularity |-> "high", trend |-> "stable"],
             [name |-> "Jump Rope Speed", base_price |-> 18, popularity |-> "medium", trend |-> "stable"],
             [name |-> "Foam Roller", base_price |-> 35, popularity |-> "medium", trend |-> "growing"],
             [name |-> "Gym Bag Duffle", base_price |-> 55, popularity |-> "medium", trend |-> "stable"],
             [name |-> "Protein Shaker Bottle", base_price |-> 15, popularity |-> "medium", trend |-> "stable"],
             [name |-> "Exercise Ball 65cm", base_price |-> 28, popularity |-> "low", trend |-> "declining"] >>,
        seasonal_peak |-> {1, 9},
        base_demand |-> 8] >>

\* random.uniform(a, b), in the unit of a and b
Uniform(a, b) == {a + ((b - a) * k) \div Grain : k \in 0..Grain}

get_seasonal_multiplier_summer_first(month, category_data) ==
    IF month \in {7, 8} THEN {70 + u : u \in Uniform(0, 10)}
    ELSE IF month \in category_data.seasonal_peak THEN {150 + u : u \in Uniform(0, 30)}
    ELSE {100 + u : u \in Uniform(-10, 10)}

\* get_seasonal_multiplier(date, category_data) for a date of that month: the
\* values it can return, in hundredths
get_seasonal_multiplier(month, category_data) ==
    IF month \in category_data.seasonal_peak THEN {150 + u : u \in Uniform(0, 30)}
    ELSE IF month \in {7, 8} THEN {70 + u : u \in Uniform(0, 10)}
    ELSE {100 + u : u \in Uniform(-10, 10)}

get_trend_multiplier_fading(product, days_from_start) ==
    IF product.trend = "hot" THEN {2160 + 4 * days_from_start}
    ELSE IF product.trend = "growing" THEN {1800 + 2 * days_from_start}
    ELSE IF product.trend = "declining" THEN {1800 - 10 * days_from_start}
    ELSE IF product.trend = "seasonal" THEN {1800}
    ELSE {1800 + u : u \in Uniform(-90, 90)}

\* get_trend_multiplier(product, days_from_start): the values it can return,
\* in 1/1800 (progress = days_from_start / 180, so progress * 0.4 is
\* 4 * days_from_start / 1800)
get_trend_multiplier(product, days_from_start) ==
    IF product.trend = "hot" THEN {2160 + 4 * days_from_start}
    ELSE IF product.trend = "growing" THEN {1800 + 2 * days_from_start}
    ELSE IF product.trend = "declining" THEN {1800 - 3 * days_from_start}
    ELSE IF product.trend = "seasonal" THEN {1800}
    ELSE {1800 + u : u \in Uniform(-90, 90)}

\* get_popularity_base(product)
get_popularity_base(product) ==
    IF product.popularity = "high" THEN 3
    ELSE IF product.popularity = "medium" THEN 2
    ELSE 1

\* is_weekend = current_date.weekday() >= 5
IsWeekend(d) == Weekday(d) >= 5

\* weekend_mult = 1.3 if is_weekend else 1.0, in tenths
WeekendMult(d) == IF IsWeekend(d) THEN 13 ELSE 10

DemandIdle ==
    /\ demand_date = 0
    /\ demand_pc = "idle"
    /\ category_cursor = 1
    /\ product_cursor = 1
    /\ seasonal_mult = 0
    /\ trend_mult = 0
    /\ expected = 0

DemandFrame == UNCHANGED <<retailVars, priceVars, leadVars, seedVars, renderVars, dashVars, stageVars, ledgerVars, idVars>>

\* current_date = START_DATE, before the first category of the first day
DemandInit ==
    /\ demand_date = 0
    /\ demand_pc = "season"
    /\ category_cursor = 1
    /\ product_cursor = 1
    /\ seasonal_mult = 0
    /\ trend_mult = 0
    /\ expected = 0

\* seasonal_mult = get_seasonal_multiplier(current_date, cat_data), once for
\* the category and the day
SeasonalMult ==
    /\ demand_pc = "season"
    /\ seasonal_mult' \in
         get_seasonal_multiplier(Month(demand_date), CATEGORIES[category_cursor])
    /\ demand_pc' = "expect"
    /\ product_cursor' = 1
    /\ UNCHANGED <<demand_date, category_cursor, trend_mult, expected>>
    /\ DemandFrame

\* base_transactions, trend_mult, weekend_mult and expected of the product
Expected ==
    /\ demand_pc = "expect"
    /\ LET cat_data == CATEGORIES[category_cursor]
           product  == cat_data.products[product_cursor]
       IN  /\ trend_mult' \in get_trend_multiplier(product, demand_date)
           /\ expected' = get_popularity_base(product) * seasonal_mult * trend_mult'
                          * WeekendMult(demand_date) * cat_data.base_demand
    /\ demand_pc' = "sell"
    /\ UNCHANGED <<demand_date, category_cursor, product_cursor, seasonal_mult>>
    /\ DemandFrame

\* the transactions of the product are generated (Spec follows them); the
\* for loops move to the next product, the next category or the day's end
DemandNextProduct ==
    /\ demand_pc = "sell"
    /\ IF product_cursor < Len(CATEGORIES[category_cursor].products)
       THEN /\ product_cursor' = product_cursor + 1
            /\ demand_pc' = "expect"
            /\ UNCHANGED <<category_cursor, seasonal_mult>>
       ELSE /\ product_cursor' = 1
            /\ seasonal_mult' = 0
            /\ IF category_cursor < Len(CATEGORIES)
               THEN category_cursor' = category_cursor + 1 /\ demand_pc' = "season"
               ELSE category_cursor' = 1 /\ demand_pc' = "day"
    /\ trend_mult' = 0
    /\ expected' = 0
    /\ UNCHANGED demand_date
    /\ DemandFrame

DemandNextDay_exclusive ==
    /\ demand_pc = "day"
    /\ demand_date' = demand_date + 1
    /\ demand_pc' = IF demand_date + 1 >= WindowDays THEN "done" ELSE "season"
    /\ UNCHANGED <<category_cursor, product_cursor, seasonal_mult, trend_mult, expected>>
    /\ DemandFrame

\* current_date += timedelta(days=1), then the while condition
DemandNextDay ==
    /\ demand_pc = "day"
    /\ demand_date' = demand_date + 1
    /\ demand_pc' = IF demand_date + 1 > WindowDays THEN "done" ELSE "season"
    /\ UNCHANGED <<category_cursor, product_cursor, seasonal_mult, trend_mult, expected>>
    /\ DemandFrame

DemandNext ==
    \/ SeasonalMult
    \/ Expected
    \/ DemandNextProduct
    \/ DemandNextDay

----------------------------------------------------------------------------
(* generate_lead_data *)

\* LEAD_SOURCES, quality in percent: the sources SpecLead follows, in the
\* order of the table
LeadSources ==
    << [name |-> "Google Ads", volume |-> "high", quality |-> 15,
        avg_deal |-> 25000, cost_per_lead |-> 150],
       [name |-> "Referral", volume |-> "low", quality |-> 45,
        avg_deal |-> 55000, cost_per_lead |-> 50],
       [name |-> "Trade Show", volume |-> "low", quality |-> 35,
        avg_deal |-> 75000, cost_per_lead |-> 500],
       [name |-> "Cold Outreach", volume |-> "medium", quality |-> 8,
        avg_deal |-> 15000, cost_per_lead |-> 100] >>

\* SALES_REPS, close_rate_bonus in percent; every rep has a positive weight
\* for every deal value
SalesReps ==
    { [name |-> "Eva Martinez", close_rate_bonus |-> 15],
      [name |-> "James Wilson", close_rate_bonus |-> 5],
      [name |-> "Sarah Chen", close_rate_bonus |-> 0],
      [name |-> "Michael Brown", close_rate_bonus |-> -3],
      [name |-> "David Kim", close_rate_bonus |-> -10] }

Stages ==
    {"Lead", "Contacted", "Qualified", "Proposal", "Negotiation",
     "Closed Won", "Closed Lost"}

ClosedStages == {"Closed Won", "Closed Lost"}

StageProb_closed_missing(stage) ==
    CASE stage = "Lead"        -> 10
      [] stage = "Contacted"   -> 20
      [] stage = "Qualified"   -> 40
      [] stage = "Proposal"    -> 60
      [] stage = "Negotiation" -> 75
      [] OTHER                 -> 10

\* stage_probs, in percent
StageProb(stage) ==
    CASE stage = "Lead"        -> 10
      [] stage = "Contacted"   -> 20
      [] stage = "Qualified"   -> 40
      [] stage = "Proposal"    -> 60
      [] stage = "Negotiation" -> 75
      [] stage = "Closed Won"  -> 100
      [] stage = "Closed Lost" -> 0

\* base_leads of a source
BaseLeads(source) ==
    IF source.volume = "high" THEN 3
    ELSE IF source.volume = "medium" THEN 2
    ELSE 1

\* np.random.poisson(mean): any count for a positive mean, 0 for the mean 0;
\* the counts followed are 0..MaxLeads
Poisson(mean) == IF mean > 0 THEN 0..MaxLeads ELSE {0}

LeadCounts_every_month(source, date) ==
    IF source.name = "Trade Show"
    THEN IF DayOfMonth(date) <= 5 THEN 8..15 ELSE {0}
    ELSE Poisson(BaseLeads(source))

\* the values of num_leads for a source on a day
LeadCounts(source, date) ==
    IF source.name = "Trade Show"
    THEN IF Month(date) \in {8, 11} /\ DayOfMonth(date) <= 5 THEN 8..15 ELSE {0}
    ELSE Poisson(BaseLeads(source))

\* deal_value = int(base_deal * random.uniform(0.5, 2.0)): the ends of the range
DealValues(avg_deal) ==
    {avg_deal \div 2 + k : k \in 0..DealSpan} \cup {2 * avg_deal - k : k \in 0..DealSpan}

ConversionProb_unclamped(source, rep) == source.quality + rep.close_rate_bonus

\* conversion_prob = min(0.8, max(0.05, base_quality + rep_bonus)), in percent
ConversionProb(source, rep) == Min(80, Max(5, source.quality + rep.close_rate_bonus))

\* the outcomes of random.random() < conversion_prob
Converted(prob) == {b \in BOOLEAN : (b => prob > 0) /\ (~b => prob < 100)}

StageList_closing_early(days_since_created, converted) ==
    IF days_since_created < 7 THEN <<"Lead">>
    ELSE IF days_since_created < 14 THEN <<"Lead", "Contacted">>
    ELSE IF days_since_created < 30 THEN
        IF converted THEN <<"Contacted", "Qualified", "Proposal">>
        ELSE <<"Lead", "Contacted">>
    ELSE IF converted THEN <<"Proposal", "Negotiation", "Closed Won">>
    ELSE <<"Qualified", "Closed Lost">>

\* the list random.choices picks the stage from
StageList(days_since_created, converted) ==
    IF days_since_created < 7 THEN <<"Lead">>
    ELSE IF days_since_created < 14 THEN <<"Lead", "Contacted">>
    ELSE IF days_since_created < 30 THEN
        IF converted THEN <<"Contacted", "Qualified", "Proposal">>
        ELSE <<"Lead", "Contacted">>
    ELSE IF days_since_created < 60 THEN
        IF converted THEN <<"Qualified", "Proposal", "Negotiation">>
        ELSE <<"Lead", "Contacted", "Qualified">>
    ELSE
        IF converted THEN <<"Proposal", "Negotiation", "Closed Won">>
        ELSE <<"Qualified", "Closed Lost">>

\* the stages the decision tree can choose: every weight is positive
StageChoices(days_since_created, converted) ==
    LET stages == StageList(days_since_created, converted)
    IN  {stages[i] : i \in 1..Len(stages)}

\* days_to_close = random.randint(30, 90): the ends of the range
CloseDelays == {30, 31, 89, 90}

\* close_date of a lead that is not closed
None == <<>>

CloseDate_within_window(stage, date, days_to_close) ==
    IF stage \in ClosedStages THEN <<Min(WindowDays, date + days_to_close)>> ELSE None

CloseDate_won_only(stage, date, days_to_close) ==
    IF stage = "Closed Won" THEN <<date + days_to_close>> ELSE None

\* close_date = lead_date + timedelta(days=days_to_close) if the stage is closed
CloseDate(stage, date, days_to_close) ==
    IF stage \in ClosedStages THEN <<date + days_to_close>> ELSE None

ExpectedValue_rounded(deal_value, stage) ==
    (deal_value * StageProb(stage) + 50) \div 100

\* int(deal_value * stage_probs[stage])
ExpectedValue(deal_value, stage) == (deal_value * StageProb(stage)) \div 100

LeadRecord_source_quality(source, deal_value, stage, date, days_to_close) ==
    [lead_date        |-> date,
     close_date       |-> IF stage \in {"Closed Won", "Closed Lost"}
                          THEN <<date + days_to_close>> ELSE <<>>,
     source           |-> source.name,
     stage            |-> stage,
     deal_value       |-> deal_value,
     probability      |-> source.quality,
     expected_value   |-> (deal_value * source.quality) \div 100,
     days_in_pipeline |-> WindowDays - date]

\* the fields of the appended record that SpecLead follows (the contact's
\* name, company and industry, contact_date, sales_rep and cost_per_lead are
\* left out: no later step reads them)
LeadRecord(source, deal_value, stage, date, days_to_close) ==
    [lead_date        |-> date,
     close_date       |-> CloseDate(stage, date, days_to_close),
     source           |-> source.name,
     stage            |-> stage,
     deal_value       |-> deal_value,
     probability      |-> StageProb(stage),
     expected_value   |-> ExpectedValue(deal_value, stage),
     days_in_pipeline |-> WindowDays - date]

LeadIdle ==
    /\ lead_date = 0
    /\ lead_pc = "idle"
    /\ source_cursor = 1
    /\ base_leads = 0
    /\ num_leads = 0
    /\ leads = <<>>

LeadFrame == UNCHANGED <<retailVars, priceVars, demandVars, seedVars, renderVars, dashVars, stageVars, ledgerVars, idVars>>

LeadInit ==
    /\ lead_date = 0
    /\ lead_pc = "count"
    /\ source_cursor = 1
    /\ base_leads = 0
    /\ num_leads = 0
    /\ leads = <<>>

\* num_leads for the source: the trade show burst, or np.random.poisson
CountLeads ==
    /\ lead_pc = "count"
    /\ base_leads' = BaseLeads(LeadSources[source_cursor])
    /\ \E n \in LeadCounts(LeadSources[source_cursor], lead_date) : num_leads' = n
    /\ lead_pc' = "make"
    /\ UNCHANGED <<lead_date, source_cursor, leads>>
    /\ LeadFrame

\* the outcomes of random.random() < conversion_prob for the rep that
\* random.choices assigns: any rep of SALES_REPS
ConversionOutcomes(source) ==
    UNION {Converted(ConversionProb(source, rep)) : rep \in SalesReps}

\* days_to_close is drawn for a closed stage only
CloseDelayDraws(stage) == IF stage \in ClosedStages THEN CloseDelays ELSE {0}

\* one iteration of `for _ in range(num_leads)`
MakeLead ==
    /\ lead_pc = "make"
    /\ num_leads > 0
    /\ LET source == LeadSources[source_cursor]
           days_since_created == WindowDays - lead_date
       IN  \E deal_value \in DealValues(source.avg_deal),
              converted \in ConversionOutcomes(source) :
             \E stage \in StageChoices(days_since_created, converted) :
               \E days_to_close \in CloseDelayDraws(stage) :
                 leads' = Recent(Append(leads,
                    LeadRecord(source, deal_value, stage, lead_date, days_to_close)))
    /\ num_leads' = num_leads - 1
    /\ UNCHANGED <<lead_date, lead_pc, source_cursor, base_leads>>
    /\ LeadFrame

\* the for loop moves to the next source
NextSource ==
    /\ lead_pc = "make"
    /\ num_leads = 0
    /\ source_cursor < Len(LeadSources)
    /\ source_cursor' = source_cursor + 1
    /\ lead_pc' = "count"
    /\ UNCHANGED <<lead_date, base_leads, num_leads, leads>>
    /\ LeadFrame

\* current_date += timedelta(days=1), then the while condition
NextLeadDay ==
    /\ lead_pc = "make"
    /\ num_leads = 0
    /\ source_cursor = Len(LeadSources)
    /\ lead_date' = lead_date + 1
    /\ lead_pc' = IF lead_date + 1 > WindowDays THEN "done" ELSE "count"
    /\ source_cursor' = 1
    /\ leads' = <<>>
    /\ UNCHANGED <<base_leads, num_leads>>
    /\ LeadFrame

LeadNext ==
    \/ CountLeads
    \/ MakeLead
    \/ NextSource
    \/ NextLeadDay

----------------------------------------------------------------------------
(* generate_retail_data and generate_lead_data with the lists kept whole *)

Appended_live_stock(records, record) ==
    Append([i \in 1..Len(records) |->
                IF "stock_level" \in DOMAIN records[i]
                THEN [records[i] EXCEPT !.stock_level = record.stock_level]
                ELSE records[i]],
           record)

\* transactions.append({...}) and leads.append({...}): the dict is built from
\* the values of the moment (an int is copied, not shared with product_stock)
Appended(records, record) == Append(records, record)

\* where the while loop of generate_lead_data goes after
\* current_date += timedelta(days=1)
LeadLoopPc(date) ==
    IF date > WindowDays THEN "done"
    ELSE IF date > MaxLeadDay THEN "cut"
    ELSE "count"

\* one iteration of `for _ in range(num_transactions)`, the list kept whole
LogSale ==
    /\ pc = "sell"
    /\ Len(transactions) < MaxLog
    /\ \E quantity \in Quantities :
         LET product == Products[cursor]
             before  == product_stock[product.name]
             after   == StockAfterSale(before, quantity)
         IN  /\ product_stock' = [product_stock EXCEPT ![product.name] = after]
             /\ transactions' = Appended(transactions,
                    SaleRecord(product, quantity, before, after, current_date))
    /\ UNCHANGED <<current_date, pc, cursor>>
    /\ RetailFrame

\* one iteration of `for _ in range(num_leads)`, the list kept whole
LogLead ==
    /\ lead_pc = "make"
    /\ num_leads > 0
    /\ LET source == LeadSources[source_cursor]
           days_since_created == WindowDays - lead_date
       IN  \E deal_value \in DealValues(source.avg_deal),
              converted \in ConversionOutcomes(source) :
             \E stage \in StageChoices(days_since_created, converted) :
               \E days_to_close \in CloseDelayDraws(stage) :
                 leads' = Appended(leads,
                    LeadRecord(source, deal_value, stage, lead_date, days_to_close))
    /\ num_leads' = num_leads - 1
    /\ UNCHANGED <<lead_date, lead_pc, source_cursor, base_leads>>
    /\ LeadFrame

\* num_leads for the source, while the list has room
LogCountLeads ==
    /\ lead_pc = "count"
    /\ base_leads' = BaseLeads(LeadSources[source_cursor])
    /\ \E n \in LeadCounts(LeadSources[source_cursor], lead_date) :
         /\ Len(leads) + n <= MaxLog
         /\ num_leads' = n
    /\ lead_pc' = "make"
    /\ UNCHANGED <<lead_date, source_cursor, leads>>
    /\ LeadFrame

\* current_date += timedelta(days=1) of generate_lead_data, the list kept whole
LogNextLeadDay ==
    /\ lead_pc = "make"
    /\ num_leads = 0
    /\ source_cursor = Len(LeadSources)
    /\ lead_date' = lead_date + 1
    /\ lead_pc' = LeadLoopPc(lead_date + 1)
    /\ source_cursor' = 1
    /\ UNCHANGED <<base_leads, num_leads, leads>>
    /\ LeadFrame

\* main calls generate_retail_data, then generate_lead_data: each builds a
\* list of its own, and SpecLog follows the one or the other
LogInit ==
    \/ RetailInit /\ LeadIdle
    \/ RetailIdle /\ LeadInit

LogNext ==
    \/ LogSale
    \/ NextProduct
    \/ Restock
    \/ NextDay
    \/ LogCountLeads
    \/ LogLead
    \/ NextSource
    \/ LogNextLeadDay

----------------------------------------------------------------------------
(* generate_retail_data: the stock ledger of several products *)

\* the sales of a run with several products that are followed
MaxSales == 3

\* sales_cap of a run all of whose sales are followed
NoCap == 0 - 1

\* products of CATEGORIES, one of each popularity
HighProduct ==
    [name |-> "Wireless Earbuds Pro", category |-> "Electronics",
     base_price |-> 149, popularity |-> "high", trend |-> "hot"]

MediumProduct ==
    [name |-> "4K Webcam", category |-> "Electronics",
     base_price |-> 89, popularity |-> "medium", trend |-> "stable"]

\* the product tables SpecLedger runs generate_retail_data with: one product
\* of each popularity alone, and two products together
ProductTables ==
    {<<HighProduct>>, <<MediumProduct>>, Products, <<HighProduct>> \o Products}

SetStock_every(ledger, name, stock) == [n \in DOMAIN ledger |-> stock]

\* product_stock[name] = stock: the entry of the one key is assigned
SetStock(ledger, name, stock) == [ledger EXCEPT ![name] = stock]

\* the fields of a record that SpecLedger follows
LedgerFields(record) ==
    [product_name |-> record.product_name,
     quantity     |-> record.quantity,
     stock_level  |-> record.stock_level]

\* the last two records of the day
Recent2(records) ==
    IF Len(records) > 2 THEN SubSeq(records, Len(records) - 1, Len(records))
    ELSE records

LedgerIdle ==
    /\ followed = <<>>
    /\ sales_cap = 0

LedgerFrame ==
    UNCHANGED <<priceVars, demandVars, leadVars, seedVars, renderVars, dashVars,
                stageVars, idVars>>

\* product_stock = {} filled by the two for loops over CATEGORIES, then
\* current_date = START_DATE
LedgerInit ==
    /\ followed \in ProductTables
    /\ sales_cap = IF Len(followed) = 1 THEN NoCap ELSE MaxSales
    /\ current_date = 0
    /\ pc = "sell"
    /\ cursor = 1
    /\ product_stock = [n \in {followed[i].name : i \in 1..Len(followed)} |->
            BaseStock(CHOOSE p \in {followed[i] : i \in 1..Len(followed)} : p.name = n)]
    /\ transactions = <<>>

LedgerSale_gated ==
    /\ pc = "sell"
    /\ sales_cap # 0
    /\ \E quantity \in Quantities :
         LET product == followed[cursor]
             before  == product_stock[product.name]
             after   == StockAfterSale(before, quantity)
         IN  /\ before >= quantity
             /\ product_stock' = SetStock(product_stock, product.name, after)
             /\ transactions' = Recent2(Append(transactions,
                    LedgerFields(SaleRecord(product, quantity, before, after,
                                            current_date))))
    /\ sales_cap' = IF sales_cap > 0 THEN sales_cap - 1 ELSE sales_cap
    /\ UNCHANGED <<current_date, pc, cursor, followed>>
    /\ LedgerFrame

\* one iteration of `for _ in range(num_transactions)` for the product the
\* loops are at: the quantity is drawn, the ledger entry of the product is
\* lowered and the record is appended, whatever the stock is
LedgerSale ==
    /\ pc = "sell"
    /\ sales_cap # 0
    /\ \E quantity \in Quantities :
         LET product == followed[cursor]
             before  == product_stock[product.name]
             after   == StockAfterSale(before, quantity)
         IN  /\ product_stock' = SetStock(product_stock, product.name, after)
             /\ transactions' = Recent2(Append(transactions,
                    LedgerFields(SaleRecord(product, quantity, before, after,
                                            current_date))))
    /\ sales_cap' = IF sales_cap > 0 THEN sales_cap - 1 ELSE sales_cap
    /\ UNCHANGED <<current_date, pc, cursor, followed>>
    /\ LedgerFrame

\* range(num_transactions) is exhausted: the next product, or the end of the
\* day's sales, where the state stops following the records of the day
LedgerNextProduct ==
    /\ pc = "sell"
    /\ IF cursor < Len(followed)
       THEN cursor' = cursor + 1 /\ pc' = "sell" /\ transactions' = transactions
       ELSE cursor' = 1 /\ pc' = "restock" /\ transactions' = <<>>
    /\ UNCHANGED <<current_date, product_stock, followed, sales_cap>>
    /\ LedgerFrame

\* one iteration of `for product_name in product_stock`, on a Monday
LedgerRestock ==
    /\ pc = "restock"
    /\ IsMonday(current_date)
    /\ cursor <= Len(followed)
    /\ LET name == followed[cursor].name
       IN  \E amount \in RestockAmounts(product_stock[name]) :
             product_stock' = SetStock(product_stock, name, product_stock[name] + amount)
    /\ cursor' = cursor + 1
    /\ UNCHANGED <<current_date, pc, transactions, followed, sales_cap>>
    /\ LedgerFrame

\* current_date += timedelta(days=1), then the while condition
LedgerNextDay ==
    /\ pc = "restock"
    /\ ~IsMonday(current_date) \/ cursor > Len(followed)
    /\ current_date' = current_date + 1
    /\ pc' = LoopPc(current_date + 1)
    /\ cursor' = 1
    /\ UNCHANGED <<product_stock, transactions, followed, sales_cap>>
    /\ LedgerFrame

LedgerNext ==
    \/ LedgerSale
    \/ LedgerNextProduct
    \/ LedgerRestock
    \/ LedgerNextDay

----------------------------------------------------------------------------
(* generate_retail_data and generate_lead_data: the identifiers of the records *)

\* the records of a run whose identifiers are followed
MaxIds == 11

\* the decimal digits of a natural number, most significant first
RECURSIVE Digits(_)
Digits(n) == IF n < 10 THEN <<n>> ELSE Append(Digits(n \div 10), n % 10)

\* the format specification 0{width}d: zeros on the left up to the width,
\* and every digit of a longer number
ZeroPadded(n, width) ==
    LET digits == Digits(n)
    IN  IF Len(digits) >= width THEN digits
        ELSE [i \in 1..(width - Len(digits)) |-> 0] \o digits

\* f'TXN{transaction_id:06d}'
TransactionId(n) == <<"TXN">> \o ZeroPadded(n, 6)

\* f'LEAD{lead_id:05d}'
LeadId(n) == <<"LEAD">> \o ZeroPadded(n, 5)

IdIdle ==
    /\ id_pc = "idle"
    /\ id_date = 0
    /\ transaction_id = 0
    /\ lead_id = 0
    /\ id_rows = <<>>

IdFrame ==
    UNCHANGED <<retailVars, priceVars, demandVars, leadVars, seedVars, renderVars,
                dashVars, stageVars, ledgerVars>>

\* transaction_id = 1 (or leads = [], lead_id = 1), current_date = START_DATE
IdInit ==
    /\ id_pc \in {"retail", "lead"}
    /\ id_date = 0
    /\ transaction_id = IF id_pc = "retail" THEN 1 ELSE 0
    /\ lead_id = IF id_pc = "lead" THEN 1 ELSE 0
    /\ id_rows = <<>>

AppendTransaction_id_kept ==
    /\ id_pc = "retail"
    /\ Len(id_rows) < MaxIds
    /\ id_rows' = Append(id_rows,
           [transaction_id |-> TransactionId(transaction_id), date |-> id_date])
    /\ UNCHANGED <<id_pc, id_date, lead_id, transaction_id>>
    /\ IdFrame

\* transactions.append({'transaction_id': ..., 'date': current_date, ...});
\* transaction_id += 1, for any product of the day
AppendTransaction ==
    /\ id_pc = "retail"
    /\ Len(id_rows) < MaxIds
    /\ id_rows' = Append(id_rows,
           [transaction_id |-> TransactionId(transaction_id), date |-> id_date])
    /\ transaction_id' = transaction_id + 1
    /\ UNCHANGED <<id_pc, id_date, lead_id>>
    /\ IdFrame

\* leads.append({'lead_id': ..., 'lead_date': lead_date, ...}); lead_id += 1,
\* for any source of the day
AppendLead ==
    /\ id_pc = "lead"
    /\ Len(id_rows) < MaxIds
    /\ id_rows' = Append(id_rows, [lead_id |-> LeadId(lead_id), lead_date |-> id_date])
    /\ lead_id' = lead_id + 1
    /\ UNCHANGED <<id_pc, id_date, transaction_id>>
    /\ IdFrame

\* current_date += timedelta(days=1), then the while condition
IdNextDay ==
    /\ id_pc \in {"retail", "lead"}
    /\ id_date' = id_date + 1
    /\ id_pc' = IF LoopPc(id_date + 1) = "sell" THEN id_pc ELSE LoopPc(id_date + 1)
    /\ UNCHANGED <<transaction_id, lead_id, id_rows>>
    /\ IdFrame

IdNext ==
    \/ AppendTransaction
    \/ AppendLead
    \/ IdNextDay

----------------------------------------------------------------------------
(* generate_lead_data: the sales rep, the conversion and the stage of a lead *)

\* LEAD_SOURCES, quality in percent
LEAD_SOURCES ==
    << [name |-> "Google Ads", volume |-> "high", quality |-> 15,
        avg_deal |-> 25000, cost_per_lead |-> 150],
       [name |-> "Facebook Ads", volume |-> "high", quality |-> 12,
        avg_deal |-> 18000, cost_per_lead |-> 80],
       [name |-> "LinkedIn", volume |-> "medium", quality |-> 25,
        avg_deal |-> 45000, cost_per_lead |-> 200],
       [name |-> "Referral", volume |-> "low", quality |-> 45,
        avg_deal |-> 55000, cost_per_lead |-> 50],
       [name |-> "Organic Search", volume |-> "medium", quality |-> 20,
        avg_deal |-> 30000, cost_per_lead |-> 0],
       [name |-> "Email Campaign", volume |-> "medium", quality |-> 18,
        avg_deal |-> 22000, cost_per_lead |-> 25],
       [name |-> "Trade Show", volume |-> "low", quality |-> 35,
        avg_deal |-> 75000, cost_per_lead |-> 500],
       [name |-> "Cold Outreach", volume |-> "medium", quality |-> 8,
        avg_deal |-> 15000, cost_per_lead |-> 100] >>

\* days_since_created of the leads SpecStage follows: the ends of the
\* buckets of the decision tree
StageDays == {0, 6, 7, 13, 14, 29, 30, 59, 60, 180}

\* random.random(), in hundredths
Rolls == 0..99

StageIdle ==
    /\ draw_pc = "idle"
    /\ draw_source = <<>>
    /\ draw_days = 0
    /\ sales_rep = <<>>
    /\ conversion_prob = 0
    /\ roll = <<>>
    /\ drawn_stage = <<>>

StageFrame ==
    UNCHANGED <<retailVars, priceVars, demandVars, leadVars, seedVars, renderVars,
                dashVars, ledgerVars, idVars>>

\* one iteration of `for _ in range(num_leads)`, for any source and day,
\* before the sales rep is assigned
StageInit ==
    /\ draw_pc = "rep"
    /\ draw_source \in {LEAD_SOURCES[i] : i \in 1..Len(LEAD_SOURCES)}
    /\ draw_days \in StageDays
    /\ sales_rep = <<>>
    /\ conversion_prob = 0
    /\ roll = <<>>
    /\ drawn_stage = <<>>

\* sales_rep = random.choices(...)[0] (every weight is positive), then
\* conversion_prob
AssignRep ==
    /\ draw_pc = "rep"
    /\ \E rep \in SalesReps :
         /\ sales_rep' = rep
         /\ conversion_prob' = ConversionProb(draw_source, rep)
    /\ draw_pc' = "stage"
    /\ UNCHANGED <<draw_source, draw_days, roll, drawn_stage>>
    /\ StageFrame

\* the decision tree: random.random() < conversion_prob where the tree asks
\* for it, then random.choices over the stages of the branch
DecideStage ==
    /\ draw_pc = "stage"
    /\ IF draw_days < 14
       THEN /\ roll' = <<>>
            /\ \E stage \in StageChoices(draw_days, FALSE) : drawn_stage' = <<stage>>
       ELSE \E r \in Rolls :
              /\ roll' = <<r>>
              /\ \E stage \in StageChoices(draw_days, r < conversion_prob) :
                   drawn_stage' = <<stage>>
    /\ draw_pc' = "made"
    /\ UNCHANGED <<draw_source, draw_days, sales_rep, conversion_prob>>
    /\ StageFrame

StageNext ==
    \/ AssignRep
    \/ DecideStage

----------------------------------------------------------------------------
(* generate_data.py run as a process: module load, main, the random sources *)

\* the two runs of the script that are compared
Runs == {1, 2}

\* np.random.seed(42) and random.seed(42)
SeedValue == 42

\* what the operating system seeds a random source with when the program
\* does not
EntropyValues == 1..MaxEntropy

\* A random source is a deterministic generator: its state is the seed it
\* was started from and the number of variates drawn from it since.
Unseeded(entropy) == [seed |-> entropy, drawn |-> 0]

random_seed_ignored(state, value) == state

\* random.seed(value) and np.random.seed(value)
random_seed(state, value) == [seed |-> value, drawn |-> 0]

\* the next variate of a source, scaled to 0..n-1: a fixed function of its state
Variate(state, n) ==
    ((state.seed + 1) * (2 * state.drawn + 1) + state.drawn * state.drawn) % n

\* the state of a source after k variates have been drawn
Advance(state, k) == [state EXCEPT !.drawn = @ + k]

\* list(STORE_PROFILES.keys())
StoreOrder ==
    <<"Downtown Flagship", "Mall Central", "Suburban Plaza", "Airport Express",
      "Outlet Store">>

\* list(SALES_REPS.keys())
RepOrder ==
    <<"Eva Martinez", "James Wilson", "Sarah Chen", "Michael Brown", "David Kim">>

\* np.random.poisson(expected): a function of the mean and of np.random's
\* state; the counts are 0..MaxCount
PoissonCount(np, mean) == (Variate(np, MaxCount + 1) + mean) % (MaxCount + 1)

\* `for _ in range(num_transactions)` for one product on one day: store,
\* quantity and price are drawn from `random`, in this order
RECURSIVE SeededTransactions(_, _, _, _, _, _)
SeededTransactions(py, count, product, date, stock, acc) ==
    IF count = 0 THEN [records |-> acc, py |-> py, stock |-> stock]
    ELSE
        LET store    == StoreOrder[1 + Variate(py, Len(StoreOrder))]
            quantity == 1 + Variate(Advance(py, 1), 5)
            factor   == FactorLow(store)
                        + Variate(Advance(py, 2), FactorHigh(store) - FactorLow(store) + 1)
            price    == product.base_price * factor
            after    == StockAfterSale(stock, quantity)
            record   == [transaction_id |-> Len(acc) + 1,
                         date           |-> date,
                         product_name   |-> product.name,
                         store          |-> store,
                         quantity       |-> quantity,
                         unit_price     |-> price,
                         total_revenue  |-> price * quantity,
                         stock_level    |-> RecordedStock(stock, after)]
        IN  SeededTransactions(Advance(py, 3), count - 1, product, date, after,
                               Append(acc, record))

\* the Monday restock of one product: random.randint from `random`, when the
\* stock is under 200
SeededRestock(py, date, stock) ==
    IF ~IsMonday(date) \/ stock >= 200 THEN [py |-> py, stock |-> stock]
    ELSE IF stock < 100
         THEN [py |-> Advance(py, 1), stock |-> stock + 50 + Variate(py, 101)]
         ELSE [py |-> Advance(py, 1), stock |-> stock + 30 + Variate(py, 51)]

\* `for _ in range(num_leads)` for one source on one day: five random.choice
\* draws for the contact, then deal value, rep, conversion, stage, contact
\* date and, for a closed stage, the days to close, all from `random` (the
\* days SpecSeed simulates are 60 or more days before END_DATE, where every
\* lead draws both a conversion and a stage)
RECURSIVE SeededLeads(_, _, _, _, _)
SeededLeads(py, count, source, date, acc) ==
    IF count = 0 THEN [records |-> acc, py |-> py]
    ELSE
        LET days_since_created == WindowDays - date
            deal_value == (source.avg_deal * (50 + Variate(Advance(py, 5), 151))) \div 100
            rep_name   == RepOrder[1 + Variate(Advance(py, 6), Len(RepOrder))]
            rep        == CHOOSE r \in SalesReps : r.name = rep_name
            converted  == Variate(Advance(py, 7), 100) < ConversionProb(source, rep)
            stages     == StageList(days_since_created, converted)
            stage      == stages[1 + Variate(Advance(py, 8), Len(stages))]
            closing    == IF stage \in ClosedStages THEN 1 ELSE 0
            days_to_close == 30 + Variate(Advance(py, 10), 61)
            record     == [lead_id |-> Len(acc) + 1, sales_rep |-> rep_name]
                          @@ LeadRecord(source, deal_value, stage, date, days_to_close)
        IN  SeededLeads(Advance(py, 10 + closing), count - 1, source, date,
                        Append(acc, record))

SeedIdle ==
    /\ os_entropy = [r \in Runs |-> [py |-> 0, np |-> 0]]
    /\ gen_pc = [r \in Runs |-> "idle"]
    /\ random_state = [r \in Runs |-> Unseeded(0)]
    /\ np_random_state = [r \in Runs |-> Unseeded(0)]
    /\ gen_day = [r \in Runs |-> 0]
    /\ gen_stock = [r \in Runs |-> 0]
    /\ retail_df = [r \in Runs |-> <<>>]
    /\ leads_df = [r \in Runs |-> <<>>]
    /\ saved = [r \in Runs |-> <<>>]

SeedFrame == UNCHANGED <<retailVars, priceVars, demandVars, leadVars, renderVars, dashVars, stageVars, ledgerVars, idVars>>

\* two fresh processes: each random source starts from the entropy of the
\* operating system
SeedInit ==
    /\ os_entropy \in [Runs -> [py : EntropyValues, np : EntropyValues]]
    /\ gen_pc = [r \in Runs |-> "load"]
    /\ random_state = [r \in Runs |-> Unseeded(os_entropy[r].py)]
    /\ np_random_state = [r \in Runs |-> Unseeded(os_entropy[r].np)]
    /\ gen_day = [r \in Runs |-> 0]
    /\ gen_stock = [r \in Runs |-> BaseStock(Products[1])]
    /\ retail_df = [r \in Runs |-> <<>>]
    /\ leads_df = [r \in Runs |-> <<>>]
    /\ saved = [r \in Runs |-> <<>>]

\* module load: np.random.seed(42); random.seed(42); then main is called
LoadModule(r) ==
    /\ gen_pc[r] = "load"
    /\ np_random_state' = [np_random_state EXCEPT ![r] = random_seed(@, SeedValue)]
    /\ random_state' = [random_state EXCEPT ![r] = random_seed(@, SeedValue)]
    /\ gen_pc' = [gen_pc EXCEPT ![r] = "retail"]
    /\ UNCHANGED <<os_entropy, gen_day, gen_stock, retail_df, leads_df, saved>>
    /\ SeedFrame

\* one day of generate_retail_data: the seasonal multiplier from `random`, the
\* count from np.random, the records, the Monday restock; the call main makes
\* is followed by generate_lead_data, a later call returns to its caller
SeededRetailDay(r) ==
    /\ gen_pc[r] \in {"retail", "retail again"}
    /\ LET date     == gen_day[r]
           seasonal == Variate(random_state[r], 3)
           count    == PoissonCount(np_random_state[r], seasonal)
           sold     == SeededTransactions(Advance(random_state[r], 1), count,
                                          Products[1], date, gen_stock[r], retail_df[r])
           stocked  == SeededRestock(sold.py, date, sold.stock)
           last     == date + 1 > SeedDays
       IN  /\ np_random_state' = [np_random_state EXCEPT ![r] = Advance(@, 1)]
           /\ random_state' = [random_state EXCEPT ![r] = stocked.py]
           /\ gen_stock' = [gen_stock EXCEPT ![r] = stocked.stock]
           /\ retail_df' = [retail_df EXCEPT ![r] = sold.records]
           /\ gen_day' = [gen_day EXCEPT ![r] = IF last THEN 0 ELSE date + 1]
           /\ gen_pc' = [gen_pc EXCEPT ![r] =
                  IF ~last THEN @ ELSE IF @ = "retail" THEN "lead" ELSE "returned"]
    /\ UNCHANGED <<os_entropy, leads_df, saved>>
    /\ SeedFrame

\* one day of generate_lead_data, which runs after generate_retail_data in
\* the same process: the count from np.random, the records from `random`
SeededLeadDay(r) ==
    /\ gen_pc[r] = "lead"
    /\ LET date  == gen_day[r]
           count == PoissonCount(np_random_state[r], 1)
           made  == SeededLeads(random_state[r], count, LeadSources[1], date, leads_df[r])
           last  == date + 1 > SeedDays
       IN  /\ np_random_state' = [np_random_state EXCEPT ![r] = Advance(@, 1)]
           /\ random_state' = [random_state EXCEPT ![r] = made.py]
           /\ leads_df' = [leads_df EXCEPT ![r] = made.records]
           /\ gen_day' = [gen_day EXCEPT ![r] = IF last THEN 0 ELSE date + 1]
           /\ gen_pc' = [gen_pc EXCEPT ![r] = IF last THEN "save" ELSE "lead"]
    /\ UNCHANGED <<os_entropy, gen_stock, retail_df, saved>>
    /\ SeedFrame

\* retail_df.to_csv(retail_path); leads_df.to_csv(leads_path)
SaveTables(r) ==
    /\ gen_pc[r] = "save"
    /\ saved' = [saved EXCEPT ![r] = <<[retail |-> retail_df[r], leads |-> leads_df[r]]>>]
    /\ gen_pc' = [gen_pc EXCEPT ![r] = "done"]
    /\ UNCHANGED <<os_entropy, random_state, np_random_state, gen_day, gen_stock,
                   retail_df, leads_df>>
    /\ SeedFrame

CallRetailAgain_reseeded(r) ==
    /\ gen_pc[r] = "done"
    /\ np_random_state' = [np_random_state EXCEPT ![r] = random_seed(@, SeedValue)]
    /\ random_state' = [random_state EXCEPT ![r] = random_seed(@, SeedValue)]
    /\ retail_df' = [retail_df EXCEPT ![r] = <<>>]
    /\ gen_stock' = [gen_stock EXCEPT ![r] = BaseStock(Products[1])]
    /\ gen_day' = [gen_day EXCEPT ![r] = 0]
    /\ gen_pc' = [gen_pc EXCEPT ![r] = "retail again"]
    /\ UNCHANGED <<os_entropy, leads_df, saved>>
    /\ SeedFrame

\* generate_retail_data() called a second time in the process: transactions
\* = [], product_stock is filled anew and current_date = START_DATE; nothing
\* in the function touches the random sources before the first draw
CallRetailAgain(r) ==
    /\ gen_pc[r] = "done"
    /\ retail_df' = [retail_df EXCEPT ![r] = <<>>]
    /\ gen_stock' = [gen_stock EXCEPT ![r] = BaseStock(Products[1])]
    /\ gen_day' = [gen_day EXCEPT ![r] = 0]
    /\ gen_pc' = [gen_pc EXCEPT ![r] = "retail again"]
    /\ UNCHANGED <<os_entropy, random_state, np_random_state, leads_df, saved>>
    /\ SeedFrame

SeedNext ==
    \/ \E r \in Runs : LoadModule(r)
    \/ \E r \in Runs : SeededRetailDay(r)
    \/ \E r \in Runs : SeededLeadDay(r)
    \/ \E r \in Runs : SaveTables(r)
    \/ \E r \in Runs : CallRetailAgain(r)

----------------------------------------------------------------------------
(* create_dashboards.py *)

\* the rows of the retail tables SpecRender renders (total_revenue in cents)
RetailRows ==
    { [product_name |-> "Tablet Stand Adjustable", category |-> "Electronics",
       store |-> "Outlet Store", month |-> "2024-07", total_revenue |-> 2450],
      [product_name |-> "Jump Rope Speed", category |-> "Sports",
       store |-> "Mall Central", month |-> "2024-12", total_revenue |-> 1800],
      [product_name |-> "Protein Shaker Bottle", category |-> "Sports",
       store |-> "Outlet Store", month |-> "2024-07", total_revenue |-> 1050] }

\* the rows of the lead tables SpecRender renders
LeadRows ==
    { [source |-> "Referral", stage |-> "Closed Won", sales_rep |-> "Eva Martinez",
       industry |-> "Finance", lead_month |-> "2024-07"],
      [source |-> "Cold Outreach", stage |-> "Lead", sales_rep |-> "David Kim",
       industry |-> "Retail", lead_month |-> "2024-12"] }

\* the tables of at most MaxRows rows, in every row order
Tables(rows) == UNION {[1..n -> rows] : n \in 0..MaxRows}

\* the strings of these rows, in the order sorted() puts them
Alphabet ==
    <<"2024-07", "2024-12", "Cold Outreach", "David Kim", "Electronics",
      "Eva Martinez", "Finance", "Jump Rope Speed", "Mall Central",
      "Outlet Store", "Protein Shaker Bottle", "Referral", "Retail", "Sports",
      "Tablet Stand Adjustable">>

\* df[column].unique()
Unique(df, column) == {df[i][column] : i \in 1..Len(df)}

\* sorted(values)
Sorted(values) ==
    LET Member(v) == v \in values
    IN  SelectSeq(Alphabet, Member)

\* df.to_json(orient='records'): one object of key/value pairs for each row,
\* in row order
to_json(df) == [i \in 1..Len(df) |-> {<<k, df[i][k]>> : k \in DOMAIN df[i]}]

\* what a function of the renderer could read besides its argument: the
\* clock and the calls made before it
World == [now |-> clock, calls |-> rendered]

create_retail_dashboard_stamped(df, world) ==
    [document   |-> "retail-inventory",
     categories |-> Sorted(Unique(df, "category")),
     stores     |-> Sorted(Unique(df, "store")),
     months     |-> Sorted(Unique(df, "month")),
     rawData    |-> to_json(df),
     generated  |-> world.now]

\* create_retail_dashboard(df): the values the template interpolates
create_retail_dashboard(df, world) ==
    [document   |-> "retail-inventory",
     categories |-> Sorted(Unique(df, "category")),
     stores     |-> Sorted(Unique(df, "store")),
     months     |-> Sorted(Unique(df, "month")),
     rawData    |-> to_json(df)]

\* create_lead_dashboard(df): the values the template interpolates
create_lead_dashboard(df, world) ==
    [document   |-> "lead-conversion",
     sources    |-> Sorted(Unique(df, "source")),
     stages     |-> <<"Lead", "Contacted", "Qualified", "Proposal", "Negotiation",
                      "Closed Won", "Closed Lost">>,
     reps       |-> Sorted(Unique(df, "sales_rep")),
     industries |-> Sorted(Unique(df, "industry")),
     months     |-> Sorted(Unique(df, "lead_month")),
     rawData    |-> to_json(df)]

\* the diagnostic of main
DataFilesNotFound == "ERROR: Data files not found. Run 'python generate_data.py' first."

InputsMissing_both(files) == files.retail = <<>> /\ files.leads = <<>>

\* not os.path.exists(retail_path) or not os.path.exists(leads_path)
InputsMissing(files) == files.retail = <<>> \/ files.leads = <<>>

RenderIdle ==
    /\ clock = 0
    /\ data_files = [retail |-> <<>>, leads |-> <<>>]
    /\ dashboards = [dir |-> FALSE, retail |-> <<>>, lead |-> <<>>]
    /\ render_pc = "idle"
    /\ frames = [retail |-> <<>>, leads |-> <<>>]
    /\ pages = [retail |-> <<>>, lead |-> <<>>]
    /\ reads = {}
    /\ writes = {}
    /\ stdout = {}
    /\ rendered = {}
    /\ invocations = 0

RenderFrame == UNCHANGED <<retailVars, priceVars, demandVars, leadVars, seedVars, dashVars, stageVars, ledgerVars, idVars>>

\* main is started over a data directory in which each CSV file exists or
\* not, with or without a dashboards directory left by an earlier run
RenderInit ==
    /\ clock = 0
    /\ data_files \in [retail : {<<>>} \cup {<<t>> : t \in Tables(RetailRows)},
                       leads  : {<<>>} \cup {<<t>> : t \in Tables(LeadRows)}]
    /\ dashboards \in [dir : BOOLEAN, retail : {<<>>}, lead : {<<>>}]
    /\ render_pc = "start"
    /\ frames = [retail |-> <<>>, leads |-> <<>>]
    /\ pages = [retail |-> <<>>, lead |-> <<>>]
    /\ reads = {}
    /\ writes = {}
    /\ stdout = {}
    /\ rendered = {}
    /\ invocations = 1

MakeDashboardsDir_skipped ==
    /\ render_pc = "start"
    /\ render_pc' = "check"
    /\ UNCHANGED <<clock, data_files, dashboards, frames, pages, reads, writes, stdout,
                   rendered, invocations>>
    /\ RenderFrame

\* os.makedirs(dashboards_dir, exist_ok=True)
MakeDashboardsDir ==
    /\ render_pc = "start"
    /\ dashboards' = [dashboards EXCEPT !.dir = TRUE]
    /\ render_pc' = "check"
    /\ UNCHANGED <<clock, data_files, frames, pages, reads, writes, stdout,
                   rendered, invocations>>
    /\ RenderFrame

\* the test for the two input files: the diagnostic and return, or go on
CheckInputs ==
    /\ render_pc = "check"
    /\ IF InputsMissing(data_files)
       THEN /\ stdout' = stdout \cup {DataFilesNotFound}
            /\ render_pc' = "returned"
       ELSE /\ stdout' = stdout
            /\ render_pc' = "read_retail"
    /\ UNCHANGED <<clock, data_files, dashboards, frames, pages, reads, writes,
                   rendered, invocations>>
    /\ RenderFrame

\* retail_df = pd.read_csv(retail_path): raises when the file is missing
ReadRetail ==
    /\ render_pc = "read_retail"
    /\ IF data_files.retail = <<>>
       THEN /\ render_pc' = "raised"
            /\ UNCHANGED <<frames, reads>>
       ELSE /\ frames' = [frames EXCEPT !.retail = data_files.retail]
            /\ reads' = reads \cup {"retail_sales_cleaned.csv"}
            /\ render_pc' = "read_leads"
    /\ UNCHANGED <<clock, data_files, dashboards, pages, writes, stdout,
                   rendered, invocations>>
    /\ RenderFrame

\* leads_df = pd.read_csv(leads_path): raises when the file is missing
ReadLeads ==
    /\ render_pc = "read_leads"
    /\ IF data_files.leads = <<>>
       THEN /\ render_pc' = "raised"
            /\ UNCHANGED <<frames, reads>>
       ELSE /\ frames' = [frames EXCEPT !.leads = data_files.leads]
            /\ reads' = reads \cup {"marketing_leads_cleaned.csv"}
            /\ render_pc' = "render_retail"
    /\ UNCHANGED <<clock, data_files, dashboards, pages, writes, stdout,
                   rendered, invocations>>
    /\ RenderFrame

\* retail_html = create_retail_dashboard(retail_df)
RenderRetail ==
    /\ render_pc = "render_retail"
    /\ LET html == create_retail_dashboard(frames.retail[1], World)
       IN  /\ pages' = [pages EXCEPT !.retail = <<html>>]
           /\ rendered' = rendered \cup
                {[fn |-> "create_retail_dashboard", table |-> frames.retail[1],
                  at |-> clock, html |-> html]}
    /\ render_pc' = "render_lead"
    /\ UNCHANGED <<clock, data_files, dashboards, frames, reads, writes, stdout,
                   invocations>>
    /\ RenderFrame

\* lead_html = create_lead_dashboard(leads_df)
RenderLead ==
    /\ render_pc = "render_lead"
    /\ LET html == create_lead_dashboard(frames.leads[1], World)
       IN  /\ pages' = [pages EXCEPT !.lead = <<html>>]
           /\ rendered' = rendered \cup
                {[fn |-> "create_lead_dashboard", table |-> frames.leads[1],
                  at |-> clock, html |-> html]}
    /\ render_pc' = "write_retail"
    /\ UNCHANGED <<clock, data_files, dashboards, frames, reads, writes, stdout,
                   invocations>>
    /\ RenderFrame

\* open('dashboards/retail-inventory.html', 'w'); f.write(retail_html)
WriteRetail ==
    /\ render_pc = "write_retail"
    /\ dashboards' = [dashboards EXCEPT !.retail = pages.retail]
    /\ writes' = writes \cup {"retail-inventory.html"}
    /\ render_pc' = "write_lead"
    /\ UNCHANGED <<clock, data_files, frames, pages, reads, stdout, rendered,
                   invocations>>
    /\ RenderFrame

\* open('dashboards/lead-conversion.html', 'w'); f.write(lead_html); return
WriteLead ==
    /\ render_pc = "write_lead"
    /\ dashboards' = [dashboards EXCEPT !.lead = pages.lead]
    /\ writes' = writes \cup {"lead-conversion.html"}
    /\ render_pc' = "returned"
    /\ UNCHANGED <<clock, data_files, frames, pages, reads, stdout, rendered,
                   invocations>>
    /\ RenderFrame

\* time passes
Tick ==
    /\ clock < MaxClock
    /\ clock' = clock + 1
    /\ UNCHANGED <<data_files, dashboards, render_pc, frames, pages, reads,
                   writes, stdout, rendered, invocations>>
    /\ RenderFrame

\* the script is run again, as a new process over the same directories
RunAgain ==
    /\ render_pc \in {"returned", "raised"}
    /\ invocations < MaxRuns
    /\ invocations' = invocations + 1
    /\ render_pc' = "start"
    /\ frames' = [retail |-> <<>>, leads |-> <<>>]
    /\ pages' = [retail |-> <<>>, lead |-> <<>>]
    /\ reads' = {}
    /\ writes' = {}
    /\ stdout' = {}
    /\ UNCHANGED <<clock, data_files, dashboards, rendered>>
    /\ RenderFrame

RenderNext ==
    \/ MakeDashboardsDir
    \/ CheckInputs
    \/ ReadRetail
    \/ ReadLeads
    \/ RenderRetail
    \/ RenderLead
    \/ WriteRetail
    \/ WriteLead
    \/ Tick
    \/ RunAgain

----------------------------------------------------------------------------
(* create_dashboards.py: the script of a rendered dashboard, in the browser *)

\* the records of the retail tables whose dashboard SpecDash opens (money in
\* cents, date as days_from_start)
DashRetailRecords ==
    { [product_name |-> "Wireless Earbuds Pro", category |-> "Electronics",
       store |-> "Downtown Flagship", month |-> "2024-07", date |-> 10,
       product_trend |-> "hot", unit_price |-> 14900, quantity |-> 1,
       total_revenue |-> 14900],
      [product_name |-> "Jump Rope Speed", category |-> "Sports",
       store |-> "Outlet Store", month |-> "2024-12", date |-> 3,
       product_trend |-> "stable", unit_price |-> 1400, quantity |-> 2,
       total_revenue |-> 2800],
      [product_name |-> "Winter Jacket Insulated", category |-> "Clothing",
       store |-> "Mall Central", month |-> "2024-12", date |-> 160,
       product_trend |-> "seasonal", unit_price |-> 18900, quantity |-> 1,
       total_revenue |-> 18900] }

\* the records of the lead tables whose dashboard SpecDash opens
DashLeadRecords ==
    { [source |-> "Referral", stage |-> "Closed Won", sales_rep |-> "Eva Martinez",
       industry |-> "Finance", lead_month |-> "2024-07", deal_value |-> 27501],
      [source |-> "Cold Outreach", stage |-> "Lead", sales_rep |-> "David Kim",
       industry |-> "Retail", lead_month |-> "2024-12", deal_value |-> 7500] }

\* a record of a table with one store, one category and one product priced
\* at 100, sold one at a time
ScenarioRecord ==
    [product_name |-> "Product", category |-> "Category", store |-> "Store",
     month |-> "2024-07", date |-> 0, product_trend |-> "stable",
     unit_price |-> 10000, quantity |-> 1, total_revenue |-> 10000]

\* the transaction counts of the one-product tables
ScenarioCounts == {1, 9, 10, 11, 9999, 10001, 10075}

\* An array of records is written as its runs of equal consecutive records:
\* <<[record |-> r, times |-> n], ...>> is r n times, then the next run.
Once(rows) == [record : rows, times : {1}]

\* the arrays rawData can be: the tables whose dashboard is opened
DashTables(page) ==
    IF page = "retail"
    THEN Tables(Once(DashRetailRecords))
         \cup {<<[record |-> ScenarioRecord, times |-> n]>> : n \in ScenarioCounts}
    ELSE Tables(Once(DashLeadRecords))

\* array.length
RECURSIVE Length(_)
Length(data) == IF data = <<>> THEN 0 ELSE Head(data).times + Length(Tail(data))

\* new Set(array.map(d => d[column]))
Values(data, column) == {data[i].record[column] : i \in 1..Len(data)}

\* the keys of currentFilters
FilterKeys(page) ==
    IF page = "retail" THEN {"category", "store", "month", "trend"}
    ELSE {"source", "stage", "rep", "industry", "month"}

\* the field of a record that the filter callback compares with a filter
FilterColumn(page, key) ==
    IF page = "retail"
    THEN CASE key = "category" -> "category"
           [] key = "store"    -> "store"
           [] key = "month"    -> "month"
           [] key = "trend"    -> "product_trend"
    ELSE CASE key = "source"   -> "source"
           [] key = "stage"    -> "stage"
           [] key = "rep"      -> "sales_rep"
           [] key = "industry" -> "industry"
           [] key = "month"    -> "lead_month"

Options_of_the_data(page, key, data) ==
    {"all"} \cup
    (IF page = "lead" /\ key = "stage" THEN Stages
     ELSE Values(data, FilterColumn(page, key)))

\* the values of the options of a filter's <select>: 'all', then the values
\* interpolated by the renderer or written in the template
Options(page, key, data) ==
    {"all"} \cup
    (IF page = "retail" /\ key = "trend"
        THEN {"hot", "growing", "stable", "declining"}
     ELSE IF page = "lead" /\ key = "stage" THEN Stages
     ELSE Values(data, FilterColumn(page, key)))

\* element.value = value on a <select>: a value that is no option selects
\* nothing, and the value reads back as ''
SelectValue(options, value) == IF value \in options THEN value ELSE ""

\* setFilter(type, value): the types it is called with, and the filter each sets
SetFilterTypes(page) ==
    IF page = "retail" THEN {"category", "store", "month", "trend"}
    ELSE {"source", "stage", "sales_rep"}

\* 'filter' + type.charAt(0).toUpperCase() + type.slice(1), and filterMap
FilterOfType(page, type) ==
    IF page = "lead" /\ type = "sales_rep" THEN "rep" ELSE type

\* the values the click handlers pass to setFilter: values of the records
\* shown, and 'hot' from the hot-products insight
ClickValues(page, type, shown) ==
    IF page = "retail" /\ type = "trend"
    THEN Values(shown, "product_trend") \cap {"hot"}
    ELSE Values(shown, FilterColumn(page, FilterOfType(page, type)))

AllFilters(page) == [key \in FilterKeys(page) |-> "all"]

Matches_any(page, filters, d) ==
    \E key \in FilterKeys(page) :
        filters[key] = "all" \/ d[FilterColumn(page, key)] = filters[key]

\* the callback of rawData.filter: false for a record that differs from an
\* active filter
Matches(page, filters, d) ==
    \A key \in FilterKeys(page) :
        filters[key] # "all" => d[FilterColumn(page, key)] = filters[key]

\* rawData.filter(d => ...)
Filtered(page, data, filters) ==
    LET Test(run) == Matches(page, filters, run.record)
    IN  SelectSeq(data, Test)

\* reduce((sum, d) => sum + d.total_revenue, 0): a run adds its record's
\* revenue `times` times
RECURSIVE SumRevenue(_)
SumRevenue(data) ==
    IF data = <<>> THEN 0
    ELSE Head(data).record.total_revenue * Head(data).times + SumRevenue(Tail(data))

RECURSIVE Pow10(_)
Pow10(f) == IF f = 0 THEN 1 ELSE 10 * Pow10(f - 1)

toFixed_truncated(num, den, f) == num \div (den \div Pow10(f))

\* (num / den).toFixed(f), as the integer n for which n / 10^f is nearest to
\* num / den, the larger one of two (den is a multiple of 10^f in every call)
toFixed(num, den, f) ==
    LET step == den \div Pow10(f)
    IN  (2 * num + step) \div (2 * step)

\* formatNumber(num) of the retail dashboard, for num cents: the digits
\* without the decimal point, the number of decimals and the suffix
formatNumber(num) ==
    IF num >= 100000000
    THEN [digits |-> toFixed(num, 100000000, 2), decimals |-> 2, suffix |-> "M"]
    ELSE IF num >= 100000
    THEN [digits |-> toFixed(num, 100000, 1), decimals |-> 1, suffix |-> "K"]
    ELSE [digits |-> toFixed(num, 100, 0), decimals |-> 0, suffix |-> ""]

\* the text '$0' of #kpiRevenue in the template
KpiTemplate == [digits |-> 0, decimals |-> 0, suffix |-> ""]

\* updateKPIs: the text of #kpiRevenue after '$' (the lead dashboard has no
\* such element)
KpiRevenue(page, shown) ==
    IF page = "retail" THEN <<formatNumber(SumRevenue(shown))>>
    ELSE <<>>

\* the dates of the records, ascending
RECURSIVE DatesAscending(_)
DatesAscending(dates) ==
    IF dates = {} THEN <<>>
    ELSE LET first == CHOOSE d \in dates : \A e \in dates : d <= e
         IN  <<first>> \o DatesAscending(dates \ {first})

RECURSIVE ConcatByDate(_, _)
ConcatByDate(data, dates) ==
    IF dates = <<>> THEN <<>>
    ELSE LET OnDate(run) == run.record.date = Head(dates)
         IN  SelectSeq(data, OnDate) \o ConcatByDate(data, Tail(dates))

\* filteredData.sort((a, b) => a.date.localeCompare(b.date)) in updateInsights
\* of the retail dashboard: a stable sort, in place
SortedInPlace(page, shown) ==
    IF page = "retail"
    THEN ConcatByDate(shown, DatesAscending(Values(shown, "date")))
    ELSE shown

DashIdle ==
    /\ dashboard = "none"
    /\ dash_pc = "idle"
    /\ rawData = <<>>
    /\ filteredData = <<>>
    /\ selects = <<>>
    /\ currentFilters = <<>>
    /\ kpiRevenue = <<>>

DashFrame == UNCHANGED <<retailVars, priceVars, demandVars, leadVars, seedVars, renderVars, stageVars, ledgerVars, idVars>>

\* the page has been parsed and its script has run: rawData, filteredData =
\* [...rawData], currentFilters; every <select> shows its first option
DashInit ==
    /\ dashboard \in {"retail", "lead"}
    /\ dash_pc = "loading"
    /\ rawData \in DashTables(dashboard)
    /\ filteredData = rawData
    /\ selects = AllFilters(dashboard)
    /\ currentFilters = AllFilters(dashboard)
    /\ kpiRevenue = IF dashboard = "retail" THEN <<KpiTemplate>> ELSE <<>>

\* updateDashboard(), for the records it is given to show
UpdateDashboard(shown) ==
    /\ kpiRevenue' = KpiRevenue(dashboard, shown)
    /\ filteredData' = SortedInPlace(dashboard, shown)

\* applyFilters(), once the <select> elements hold `chosen`
ApplyFilters(chosen) ==
    /\ selects' = chosen
    /\ currentFilters' = chosen
    /\ UpdateDashboard(Filtered(dashboard, rawData, chosen))
    /\ UNCHANGED <<dashboard, dash_pc, rawData>>
    /\ DashFrame

\* the DOMContentLoaded listener: the first updateDashboard()
DOMContentLoaded ==
    /\ dash_pc = "loading"
    /\ dash_pc' = "ready"
    /\ UpdateDashboard(filteredData)
    /\ UNCHANGED <<dashboard, rawData, selects, currentFilters>>
    /\ DashFrame

\* the user picks an option of a <select>: its change listener is applyFilters
ChangeSelect ==
    /\ dash_pc = "ready"
    /\ \E key \in FilterKeys(dashboard) :
         \E value \in Options(dashboard, key, rawData) :
            /\ value # selects[key]
            /\ ApplyFilters([selects EXCEPT ![key] = value])

\* setFilter(type, value), called by a click on a chart, an insight or a row
SetFilter ==
    /\ dash_pc = "ready"
    /\ \E type \in SetFilterTypes(dashboard) :
         \E value \in ClickValues(dashboard, type, filteredData) :
            LET key == FilterOfType(dashboard, type)
            IN  ApplyFilters([selects EXCEPT ![key] =
                    SelectValue(Options(dashboard, key, rawData), value)])

\* clearFilter(key), called by a click on the tag of an active filter
ClearFilter ==
    /\ dash_pc = "ready"
    /\ \E key \in FilterKeys(dashboard) :
         /\ currentFilters[key] # "all"
         /\ ApplyFilters([selects EXCEPT ![key] = "all"])

\* resetFilters()
ResetFilters ==
    /\ dash_pc = "ready"
    /\ selects' = AllFilters(dashboard)
    /\ currentFilters' = AllFilters(dashboard)
    /\ UpdateDashboard(rawData)
    /\ UNCHANGED <<dashboard, dash_pc, rawData>>
    /\ DashFrame

DashNext ==
    \/ DOMContentLoaded
    \/ ChangeSelect
    \/ SetFilter
    \/ ClearFilter
    \/ ResetFilters

----------------------------------------------------------------------------
(* Specifications *)

Init == RetailInit /\ PriceIdle /\ LeadIdle /\ SeedIdle /\ RenderIdle /\ DashIdle /\ DemandIdle /\ StageIdle /\ LedgerIdle /\ IdIdle

Next == RetailNext

Spec == Init /\ [][Next]_vars

InitPrice == PriceInit /\ RetailIdle /\ LeadIdle /\ SeedIdle /\ RenderIdle /\ DashIdle /\ DemandIdle /\ StageIdle /\ LedgerIdle /\ IdIdle

NextPrice == EmitPriced

SpecPrice == InitPrice /\ [][NextPrice]_vars

InitLead == LeadInit /\ RetailIdle /\ PriceIdle /\ SeedIdle /\ RenderIdle /\ DashIdle /\ DemandIdle /\ StageIdle /\ LedgerIdle /\ IdIdle

NextLead == LeadNext

SpecLead == InitLead /\ [][NextLead]_vars

InitSeed == SeedInit /\ RetailIdle /\ PriceIdle /\ LeadIdle /\ RenderIdle /\ DashIdle /\ DemandIdle /\ StageIdle /\ LedgerIdle /\ IdIdle

NextSeed == SeedNext

SpecSeed == InitSeed /\ [][NextSeed]_vars

InitRender == RenderInit /\ RetailIdle /\ PriceIdle /\ LeadIdle /\ SeedIdle /\ DashIdle /\ DemandIdle /\ StageIdle /\ LedgerIdle /\ IdIdle

NextRender == RenderNext

SpecRender == InitRender /\ [][NextRender]_vars

InitLog == LogInit /\ PriceIdle /\ SeedIdle /\ RenderIdle /\ DashIdle /\ DemandIdle /\ StageIdle /\ LedgerIdle /\ IdIdle

NextLog == LogNext

SpecLog == InitLog /\ [][NextLog]_vars

InitDash ==
    DashInit /\ RetailIdle /\ PriceIdle /\ LeadIdle /\ SeedIdle /\ RenderIdle /\ DemandIdle /\ StageIdle /\ LedgerIdle /\ IdIdle

InitStage ==
    StageInit /\ RetailIdle /\ PriceIdle /\ DemandIdle /\ LeadIdle /\ SeedIdle
    /\ RenderIdle /\ DashIdle /\ LedgerIdle /\ IdIdle

NextStage == StageNext

SpecStage == InitStage /\ [][NextStage]_vars

InitLedger ==
    LedgerInit /\ PriceIdle /\ DemandIdle /\ LeadIdle /\ SeedIdle /\ RenderIdle
    /\ DashIdle /\ StageIdle /\ IdIdle

NextLedger == LedgerNext

SpecLedger == InitLedger /\ [][NextLedger]_vars

InitIds ==
    IdInit /\ RetailIdle /\ PriceIdle /\ DemandIdle /\ LeadIdle /\ SeedIdle
    /\ RenderIdle /\ DashIdle /\ StageIdle /\ LedgerIdle

NextIds == IdNext

SpecIds == InitIds /\ [][NextIds]_vars

\* main: generate_retail_data() has returned, generate_lead_data() is called:
\* leads = [], lead_id = 1, current_date = START_DATE
CallLeadGenerator ==
    /\ demand_pc = "done"
    /\ lead_pc = "idle"
    /\ lead_date' = 0
    /\ lead_pc' = "count"
    /\ source_cursor' = 1
    /\ base_leads' = 0
    /\ num_leads' = 0
    /\ leads' = <<>>
    /\ UNCHANGED <<retailVars, priceVars, demandVars, seedVars, renderVars, dashVars,
                   stageVars, ledgerVars, idVars>>

\* one iteration of `for _ in range(num_leads)`, with every stage the lead
\* can get on the day; of the draws that do not bear on the dates of the
\* record, the deal value and the days to close, one value is followed
MakeDatedLead ==
    /\ lead_pc = "make"
    /\ num_leads > 0
    /\ LET source == LeadSources[source_cursor]
           days_since_created == WindowDays - lead_date
       IN  \E converted \in ConversionOutcomes(source) :
             \E stage \in StageChoices(days_since_created, converted) :
               leads' = Recent(Append(leads,
                  LeadRecord(source, source.avg_deal, stage, lead_date, 30)))
    /\ num_leads' = num_leads - 1
    /\ UNCHANGED <<lead_date, lead_pc, source_cursor, base_leads>>
    /\ LeadFrame

InitDays ==
    DemandInit /\ RetailIdle /\ PriceIdle /\ LeadIdle /\ SeedIdle /\ RenderIdle
    /\ DashIdle /\ StageIdle /\ LedgerIdle /\ IdIdle

NextDays ==
    \/ DemandNext
    \/ CallLeadGenerator
    \/ CountLeads
    \/ MakeDatedLead
    \/ NextSource
    \/ NextLeadDay

\* the two generators run one after the other in one thread, which always
\* takes the next step of the loop it is in
SpecDays == InitDays /\ [][NextDays]_vars /\ WF_vars(NextDays)

InitDemand ==
    DemandInit /\ RetailIdle /\ PriceIdle /\ LeadIdle /\ SeedIdle /\ RenderIdle /\ DashIdle /\ StageIdle /\ LedgerIdle /\ IdIdle

NextDemand == DemandNext

SpecDemand == InitDemand /\ [][NextDemand]_vars

NextDash == DashNext

SpecDash == InitDash /\ [][NextDash]_vars

----------------------------------------------------------------------------
(* Claims about generate_retail_data, checked under Spec *)

LastRecord == transactions[Len(transactions)]

\* C1: in every state reached while generate_retail_data runs, after any
\* sequence of sales and Monday restocks, every entry of the stock ledger is
\* >= 0, and every emitted record has stock_level >= 0.
StockNeverNegative ==
    /\ \A n \in ProductNames : product_stock[n] >= 0
    /\ \A i \in 1..Len(transactions) : transactions[i].stock_level >= 0

\* C1 witness: sales have emptied a product: its ledger entry is 0, the record
\* of the last sale shows stock_level 0, and the sale loop is still running.
StockSoldOut ==
    /\ pc = "sell"
    /\ transactions # <<>>
    /\ LastRecord.stock_level = 0
    /\ product_stock[LastRecord.product_name] = 0

\* a step of Sale: the loop stays at the same product of the same day
IsSale == pc = "sell" /\ pc' = "sell" /\ cursor' = cursor

\* no Monday restock runs between a record of day d1 and one of day d2: the
\* restock of a Monday follows that Monday's sales
NoRestockBetween(d1, d2) == \A d \in d1..(d2 - 1) : ~IsMonday(d)

\* C9: a sale of quantity q of a product sets its stock to
\* max(0, previous stock - q) and the emitted record carries that post-sale
\* value; so across two consecutive records of a product with no Monday
\* restock between them the recorded stock_level does not increase.
SaleLowersRecordedStock ==
    [][IsSale =>
        LET name == Products[cursor].name
            new  == transactions'[Len(transactions')]
        IN  /\ new.product_name = name
            /\ new.quantity \in Quantities
            /\ product_stock'[name] = Max(0, product_stock[name] - new.quantity)
            /\ new.stock_level = product_stock'[name]
            /\ (/\ transactions # <<>>
                /\ LastRecord.product_name = name
                /\ NoRestockBetween(LastRecord.date, new.date))
               => new.stock_level <= LastRecord.stock_level]_vars

\* C9 witness: a record emitted after earlier sales of the same product: it
\* shows the ledger's value, which is positive and more than its quantity
\* below the initial stock.
SaleRecordedAfterSales ==
    /\ transactions # <<>>
    /\ LastRecord.stock_level = product_stock[LastRecord.product_name]
    /\ LastRecord.stock_level > 0
    /\ LastRecord.stock_level + LastRecord.quantity < 200
    /\ current_date = LastRecord.date

\* the stock a product gains in a step
Gain(name) == product_stock'[name] - product_stock[name]

\* C14: stock rises only in the restock step, which runs on a Monday, once
\* for every product, after the day's last sale and before the date changes
\* (no sale of that Monday follows it): a product under 100 gains 50..150, a
\* product from 100 to 199 gains 30..80, a product at 200 or more gains nothing
StockRaisedOnlyByMondayRestock ==
    [][/\ \A name \in ProductNames :
            Gain(name) > 0 =>
                /\ pc = "restock" /\ pc' = "restock"
                /\ IsMonday(current_date) /\ current_date' = current_date
                /\ transactions' = transactions
                /\ name = Products[cursor].name
       /\ pc = "restock" /\ current_date' = current_date =>
            /\ pc' = "restock"
            /\ cursor' = cursor + 1
            /\ IsMonday(current_date)
            /\ LET name  == Products[cursor].name
                   stock == product_stock[name]
               IN  /\ stock < 100 => Gain(name) \in 50..150
                   /\ stock >= 100 /\ stock < 200 => Gain(name) \in 30..80
                   /\ stock >= 200 => Gain(name) = 0
       /\ current_date' # current_date =>
            /\ pc = "restock"
            /\ IsMonday(current_date) => cursor > Len(Products)
            /\ ~IsMonday(current_date) => cursor = 1]_vars

\* the last record of a Monday shows a stock under 100, and the restock that
\* followed it has raised the ledger by 50 or more
MondayRestockAfterSales ==
    /\ pc = "restock"
    /\ IsMonday(current_date)
    /\ cursor > Len(Products)
    /\ transactions # <<>>
    /\ LastRecord.date = current_date
    /\ LastRecord.stock_level < 100
    /\ product_stock[LastRecord.product_name] >= LastRecord.stock_level + 50

----------------------------------------------------------------------------
(* Claims about the priced fields, checked under SpecPrice *)

\* C2: for every emitted retail record the stored total_revenue equals
\* round(unit_price * quantity, 2), computed from the record's stored
\* unit_price (rounded to cents) and its stored quantity, for every price the
\* generator can draw and every quantity in 1..5.
RevenueFromStoredUnitPrice ==
    priced # <<>> =>
        priced.total_revenue = Round2(priced.unit_price * SubCent * priced.quantity)

\* C20: the price of a record before rounding is within 0.95..1.05 of the
\* base price of its product when the store is not the Outlet Store, and
\* within 0.70..0.85 of it when it is; so it is below every price the product
\* can have at another store when the store is the Outlet Store, and above
\* every price the product can have at the Outlet Store when it is not
PriceWithinStoreBand ==
    priced # <<>> =>
        LET base  == price_draw.product.base_price * SubCent
            price == price_draw.price
        IN  IF priced.store = "Outlet Store"
            THEN /\ 70 * base <= price /\ price <= 85 * base
                 /\ \A store \in Stores \ {"Outlet Store"} :
                      \A other \in Prices(price_draw.product.base_price, store) :
                         price < other
            ELSE /\ 95 * base <= price /\ price <= 105 * base
                 /\ \A other \in Prices(price_draw.product.base_price, "Outlet Store") :
                      other < price

\* a record of the Outlet Store at the smallest discount, 15 percent
OutletRecordAtTopOfBand ==
    /\ priced # <<>>
    /\ priced.store = "Outlet Store"
    /\ price_draw.price = 85 * price_draw.product.base_price * SubCent

----------------------------------------------------------------------------
(* Claims about generate_lead_data, checked under SpecLead *)

LastLead == leads[Len(leads)]

\* the win probability, in percent, that the specification gives for a stage
ClaimedProb(stage) ==
    CASE stage = "Lead"        -> 10
      [] stage = "Contacted"   -> 20
      [] stage = "Qualified"   -> 40
      [] stage = "Proposal"    -> 60
      [] stage = "Negotiation" -> 75
      [] stage = "Closed Won"  -> 100
      [] stage = "Closed Lost" -> 0
      [] OTHER                 -> -1

\* C3: every emitted lead record whose stage is Closed Won or Closed Lost has
\* a non-null close_date.
ClosedLeadHasCloseDate ==
    \A i \in 1..Len(leads) :
        leads[i].stage \in {"Closed Won", "Closed Lost"} => leads[i].close_date # None

\* C3 witness: a Closed Lost record has been emitted, with its close date.
ClosedLostLeadEmitted ==
    /\ leads # <<>>
    /\ LastLead.stage = "Closed Lost"
    /\ LastLead.close_date = <<LastLead.lead_date + 30>>

\* C4: a Closed Won lead has expected_value equal to its deal_value and a
\* Closed Lost lead has expected_value 0: expected_value = deal_value *
\* probability for both closed stages.
ClosedExpectedValue ==
    \A i \in 1..Len(leads) :
        /\ leads[i].stage = "Closed Won" =>
              leads[i].probability = 100 /\ leads[i].expected_value = leads[i].deal_value
        /\ leads[i].stage = "Closed Lost" =>
              leads[i].probability = 0 /\ leads[i].expected_value = 0

\* C4 witness: a Closed Won record with an odd deal value has been emitted.
ClosedWonLeadEmitted ==
    /\ leads # <<>>
    /\ LastLead.stage = "Closed Won"
    /\ LastLead.deal_value % 2 = 1
    /\ LastLead.expected_value > 0

\* C5 as stated: for every lead record in any stage, expected_value equals
\* deal_value multiplied by the win probability of its stage, for every
\* integer deal_value the generator can produce.
ExpectedValueIsExactProduct ==
    \A i \in 1..Len(leads) :
        100 * leads[i].expected_value = leads[i].deal_value * ClaimedProb(leads[i].stage)

\* C5 as amended: expected_value is deal_value multiplied by the win
\* probability of the stage, truncated to an integer: never above the
\* product and less than 1 below it.
ExpectedValueIsTruncatedProduct ==
    \A i \in 1..Len(leads) :
        LET product == leads[i].deal_value * ClaimedProb(leads[i].stage)
        IN  /\ 100 * leads[i].expected_value <= product
            /\ product < 100 * (leads[i].expected_value + 1)

\* C5 witness: a record whose deal_value times probability is not an
\* integer, and ends in .5 or more, has been emitted.
FractionalProductEmitted ==
    /\ leads # <<>>
    /\ (LastLead.deal_value * ClaimedProb(LastLead.stage)) % 100 >= 50

\* C10: every generated lead's stage is one of the seven values Lead,
\* Contacted, Qualified, Proposal, Negotiation, Closed Won, Closed Lost, and
\* its probability field is the stage's entry of the stage-probability table.
LeadStageAndProbability ==
    \A i \in 1..Len(leads) :
        /\ leads[i].stage \in {"Lead", "Contacted", "Qualified", "Proposal",
                               "Negotiation", "Closed Won", "Closed Lost"}
        /\ leads[i].probability = ClaimedProb(leads[i].stage)

\* C10 witness: a lead in stage Negotiation, with probability 0.75, has been
\* emitted.
NegotiationLeadEmitted ==
    /\ leads # <<>>
    /\ LastLead.stage = "Negotiation"
    /\ LastLead.probability = 75

\* the stages the claim allows a lead that many days old
BucketStages(days) ==
    IF days < 7 THEN {"Lead"}
    ELSE IF days < 14 THEN {"Lead", "Contacted"}
    ELSE IF days < 30 THEN {"Lead", "Contacted", "Qualified", "Proposal"}
    ELSE IF days < 60 THEN {"Lead", "Contacted", "Qualified", "Proposal", "Negotiation"}
    ELSE {"Qualified", "Proposal", "Negotiation", "Closed Won", "Closed Lost"}

\* C15: the stage of a lead is one of the stages of its days-elapsed bucket
\* (END_DATE minus creation date); so a closed lead has 60 days or more in
\* the pipeline, and no lead of 60 days or more is in stage Lead or Contacted
StageWithinBucket ==
    \A i \in 1..Len(leads) :
        /\ leads[i].days_in_pipeline = WindowDays - leads[i].lead_date
        /\ leads[i].stage \in BucketStages(leads[i].days_in_pipeline)
        /\ leads[i].stage \in ClosedStages => leads[i].days_in_pipeline >= 60
        /\ leads[i].days_in_pipeline >= 60 => leads[i].stage \notin {"Lead", "Contacted"}

\* a lead created exactly 60 days before END_DATE is emitted closed, and the
\* generator has gone on to a later day
LeadClosedAtSixtyDays ==
    /\ leads # <<>>
    /\ LastLead.days_in_pipeline = 60
    /\ LastLead.stage = "Closed Lost"
    /\ lead_pc = "make"
    /\ num_leads = 0

\* days 1..5 of August 2024 and of November 2024, as days from START_DATE
TradeShowDays == (28..32) \cup (120..124)

\* the mean the claim gives a source of that volume
ClaimedMean(volume) ==
    CASE volume = "high"   -> 3
      [] volume = "medium" -> 2
      [] volume = "low"    -> 1

\* C16: the Trade Show count of a day is 8..15 on days 1..5 of August and of
\* November and 0 on every other day, so every Trade Show lead is created on
\* one of those days; the count of every other source is a Poisson draw whose
\* mean is 3, 2 or 1 by the volume of the source, whatever the date
LeadCountBySource ==
    [][/\ lead_pc = "count" /\ lead_pc' = "make" =>
            LET source == LeadSources[source_cursor]
            IN  IF source.name = "Trade Show"
                THEN IF lead_date \in TradeShowDays
                     THEN num_leads' \in 8..15
                     ELSE num_leads' = 0
                ELSE /\ base_leads' = ClaimedMean(source.volume)
                     /\ num_leads' \in Poisson(base_leads')
       /\ \A i \in 1..Len(leads') :
            leads'[i].source = "Trade Show" => leads'[i].lead_date \in TradeShowDays]_vars

\* the Trade Show count of 5 November is drawn at its maximum, after the
\* high-volume source of that day drew with mean 3
TradeShowBurstCounted ==
    /\ lead_pc = "make"
    /\ LeadSources[source_cursor].name = "Trade Show"
    /\ lead_date = 124
    /\ num_leads = 15

----------------------------------------------------------------------------
(* Claims about two runs of generate_data.py, checked under SpecSeed *)

\* C6: two runs of the generator (main: generate_retail_data followed by
\* generate_lead_data) that start from the same seed produce identical retail
\* and lead tables, whatever state the random sources would have had
\* without the seed: the output is a function of the seed and the static
\* profile tables only.
SameSeedSameTables ==
    \A r1, r2 \in Runs :
        (gen_pc[r1] = "done" /\ gen_pc[r2] = "done") =>
            /\ saved[r1] # <<>>
            /\ saved[r1] = saved[r2]

\* C6 witness: both runs have saved their tables, neither table is empty,
\* and the two processes started from different entropy for both sources.
BothRunsSaved ==
    /\ \A r \in Runs :
          /\ gen_pc[r] = "done"
          /\ saved[r] # <<>>
          /\ Len(saved[r][1].retail) >= 2
          /\ Len(saved[r][1].leads) >= 2
    /\ os_entropy[1].py # os_entropy[2].py
    /\ os_entropy[1].np # os_entropy[2].np

----------------------------------------------------------------------------
(* Claims about create_dashboards.py, checked under SpecRender *)

\* C7: create_retail_dashboard and create_lead_dashboard are pure functions
\* of their input table: any two calls of one of them on the same table,
\* made at any times and after any earlier renders, return identical HTML.
RenderIsFunctionOfTable ==
    \A a, b \in rendered :
        (a.fn = b.fn /\ a.table = b.table) => a.html = b.html

\* C7 witness: each function has rendered the same non-empty table twice, at
\* two different times, the second time after the renders of an earlier run.
SameTableRenderedTwice ==
    \A fn \in {"create_retail_dashboard", "create_lead_dashboard"} :
        \E a, b \in rendered :
            /\ a.fn = fn /\ b.fn = fn
            /\ a.table = b.table /\ a.table # <<>>
            /\ a.at < b.at

\* C8: when main runs and either retail_sales_cleaned.csv or
\* marketing_leads_cleaned.csv is missing, it prints the diagnostic and
\* returns without raising, reads neither file and writes neither HTML
\* dashboard, even when one of the two inputs exists.
MissingInputNoOutput ==
    (data_files.retail = <<>> \/ data_files.leads = <<>>) =>
        /\ render_pc \in {"start", "check", "returned"}
        /\ reads = {}
        /\ writes = {}
        /\ frames = [retail |-> <<>>, leads |-> <<>>]
        /\ dashboards.retail = <<>> /\ dashboards.lead = <<>>
        /\ render_pc = "returned" => stdout = {DataFilesNotFound}

\* C8 witness: main has returned after the diagnostic over a data directory
\* that holds a retail table but no lead file.
OneInputMissingReturned ==
    /\ data_files.retail # <<>> /\ data_files.retail[1] # <<>>
    /\ data_files.leads = <<>>
    /\ render_pc = "returned"
    /\ DataFilesNotFound \in stdout
    /\ writes = {}

----------------------------------------------------------------------------
(* Claims about the script of a dashboard, checked under SpecDash *)

\* the table has one store, one category and one product, and every record
\* has unit price 100 and quantity 1
OneProductAt100 ==
    /\ dashboard = "retail"
    /\ rawData # <<>>
    /\ Cardinality(Values(rawData, "store")) = 1
    /\ Cardinality(Values(rawData, "category")) = 1
    /\ Cardinality(Values(rawData, "product_name")) = 1
    /\ Values(rawData, "unit_price") = {10000}
    /\ Values(rawData, "quantity") = {1}
    /\ Values(rawData, "total_revenue") = {10000}

\* the page has been drawn and no filter is applied
ShownUnfiltered ==
    /\ dash_pc = "ready"
    /\ \A key \in DOMAIN currentFilters : currentFilters[key] = "all"

\* the number of cents a unit of the last digit of a KPI text stands for
CentsPerDigit(text) ==
    (CASE text.suffix = ""  -> 100
       [] text.suffix = "K" -> 100000
       [] text.suffix = "M" -> 100000000) \div Pow10(text.decimals)

\* C11 as stated: given a table with exactly one store, one category and one
\* product whose every record has unit price 100 and quantity 1, with no
\* filter applied the rendered KPI "Total Revenue" equals
\* 100 x transaction_count, for every transaction count.
ScenarioKpiIsExactRevenue ==
    (OneProductAt100 /\ ShownUnfiltered) =>
        kpiRevenue[1].digits * CentsPerDigit(kpiRevenue[1]) = 10000 * Length(rawData)

\* C11 as amended: in that scenario the KPI shows 100 x transaction_count as
\* formatNumber writes it: the whole number under 10 transactions, the
\* number of thousands with one decimal (exact) from 10 to 9999
\* transactions, and from 10000 transactions on the number of millions
\* rounded to two decimals, at most 5000 away from the revenue.
ScenarioKpiIsFormattedRevenue ==
    (OneProductAt100 /\ ShownUnfiltered) =>
        LET count == Length(rawData)
            text  == kpiRevenue[1]
        IN  /\ count < 10 =>
                  text = [digits |-> 100 * count, decimals |-> 0, suffix |-> ""]
            /\ (10 <= count /\ count < 10000) =>
                  text = [digits |-> count, decimals |-> 1, suffix |-> "K"]
            /\ count >= 10000 =>
                  /\ text.suffix = "M" /\ text.decimals = 2
                  /\ text.digits * 10000 - 100 * count <= 5000
                  /\ 100 * count - text.digits * 10000 <= 5000

\* C11 witness: the dashboard of a one-product table of 10075 transactions
\* is shown unfiltered, and its KPI reads $1.01M.
ScenarioMillionShown ==
    /\ OneProductAt100 /\ ShownUnfiltered
    /\ Length(rawData) = 10075
    /\ kpiRevenue[1] = [digits |-> 101, decimals |-> 2, suffix |-> "M"]

\* the records of an array
Records(data) == {data[i].record : i \in 1..Len(data)}

\* how many times a record occurs in an array
RECURSIVE Count(_, _)
Count(data, r) ==
    IF data = <<>> THEN 0
    ELSE (IF Head(data).record = r THEN Head(data).times ELSE 0) + Count(Tail(data), r)

\* the record agrees with every one of the filters that is not 'all'
PassesFilters(filters, r) ==
    \A key \in DOMAIN filters :
        filters[key] # "all" => r[FilterColumn(dashboard, key)] = filters[key]

\* `shown` holds the records of `data` that pass the filters, each as often
\* as `data` holds it
HoldsTheMatching(shown, data, filters) ==
    \A r \in Records(data) \cup Records(shown) :
        Count(shown, r) = IF PassesFilters(filters, r) THEN Count(data, r) ELSE 0

\* C17: after every step of either dashboard (the first update, applyFilters
\* from a <select>, setFilter, clearFilter, resetFilters) filteredData holds,
\* as a multiset, exactly the records of rawData that match every filter
\* whose value is not 'all'; rawData is never modified; and after
\* resetFilters every filter is 'all' and filteredData holds all the records
FilteredDataMatchesFilters ==
    [][/\ rawData' = rawData
       /\ HoldsTheMatching(filteredData, rawData, currentFilters)
       /\ HoldsTheMatching(filteredData', rawData', currentFilters')
       /\ ResetFilters =>
            /\ \A key \in DOMAIN currentFilters' : currentFilters'[key] = "all"
            /\ \A r \in Records(rawData) : Count(filteredData', r) = Count(rawData, r)
            /\ Length(filteredData') = Length(rawData)]_vars

\* the store filter of the retail dashboard is set and one of the two
\* records of the table is shown
OneRecordFilteredOut ==
    /\ dashboard = "retail"
    /\ dash_pc = "ready"
    /\ currentFilters.store = "Outlet Store"
    /\ currentFilters.category = "all"
    /\ Length(rawData) = 2
    /\ Length(filteredData) = 1
    /\ Records(filteredData) # Records(rawData)

----------------------------------------------------------------------------
(* Claims about the lists of records, checked under SpecLog *)

IsPrefix(s, t) == Len(s) <= Len(t) /\ SubSeq(t, 1, Len(s)) = s

\* C13: generation is append-only: every step leaves the retail records and
\* the lead records emitted so far as they are, stock_level included, so the
\* list so far is a prefix of the list after the step (and of the final
\* list); a restock or a change of day appends nothing, it changes only the
\* stock ledger and the date
RecordsAppendOnly ==
    [][/\ IsPrefix(transactions, transactions')
       /\ IsPrefix(leads, leads')
       /\ pc = "restock" => transactions' = transactions
       /\ product_stock' # product_stock =>
            \/ pc = "restock" /\ transactions' = transactions
            \/ Len(transactions') = Len(transactions) + 1]_vars

\* a record of day 0 is followed by a later sale and by the Monday restock,
\* which raises the stock above the level the later record shows
RestockedAfterRecords ==
    /\ pc = "cut"
    /\ Len(transactions) = 2
    /\ transactions[1].date = 0
    /\ transactions[2].date \in 1..3
    /\ transactions[2].stock_level < transactions[1].stock_level
    /\ product_stock[transactions[2].product_name] > transactions[2].stock_level

----------------------------------------------------------------------------
(* Claims about the expected number of transactions, checked under SpecDemand *)

\* the category and the product the loops are at
DemandCategory == CATEGORIES[category_cursor]

DemandProduct == DemandCategory.products[product_cursor]

\* the range the claim gives the seasonal multiplier, in hundredths: the
\* peak months first, then the summer
SeasonalRange(month, peak_months) ==
    IF month \in peak_months THEN 150..180
    ELSE IF month \in {7, 8} THEN 70..80
    ELSE 90..110

\* the peak months of the categories, and peak months that fall in the summer
PeakMonthSets ==
    {CATEGORIES[i].seasonal_peak : i \in 1..Len(CATEGORIES)} \cup {{}, {7}, {8, 12}}

\* C18: get_seasonal_multiplier returns a value in [1.5, 1.8] in a peak month
\* of the category, otherwise in [0.7, 0.8] in July or August, otherwise in
\* [0.9, 1.1]: for the category and month of every call of the day loop, and
\* for every month of the year and every set of peak months, also one that
\* holds a summer month
SeasonalMultiplierInRange ==
    /\ demand_pc \in {"expect", "sell"} =>
         seasonal_mult \in SeasonalRange(Month(demand_date), DemandCategory.seasonal_peak)
    /\ \A month \in 1..12, peak_months \in PeakMonthSets :
         get_seasonal_multiplier(month, [seasonal_peak |-> peak_months])
            \subseteq SeasonalRange(month, peak_months)

\* Electronics draws the highest multiplier of a peak month in November
PeakMultiplierDrawn ==
    /\ demand_pc = "expect"
    /\ DemandCategory.name = "Electronics"
    /\ Month(demand_date) = 11
    /\ seasonal_mult = 180

\* a multiplier that goes from `from` to `to` linearly in days / 180
Linear(from, to, days) == from + ((to - from) * days) \div WindowDays

\* the trend multipliers the claim gives a product on a day, in 1/1800
TrendRange(trend, days) ==
    CASE trend = "hot"       -> {Linear(2160, 2880, days)}
      [] trend = "growing"   -> {Linear(1800, 2160, days)}
      [] trend = "declining" -> {Linear(1800, 1260, days)}
      [] trend = "seasonal"  -> {1800}
      [] trend = "stable"    -> 1710..1890

\* the base rate the claim gives a popularity
BaseRate(popularity) ==
    CASE popularity = "high"   -> 3
      [] popularity = "medium" -> 2
      [] popularity = "low"    -> 1

\* C19: on every day 0..180 and for every product the Poisson mean is the
\* product of the base rate of the popularity, the seasonal multiplier, the
\* trend multiplier of the claim, the weekend boost (1.3 on Saturday and
\* Sunday) and the base demand of the category, and it is above 0
ExpectedIsPositiveProduct ==
    demand_pc = "sell" =>
        /\ demand_date \in 0..WindowDays
        /\ trend_mult \in TrendRange(DemandProduct.trend, demand_date)
        /\ expected = BaseRate(DemandProduct.popularity) * seasonal_mult * trend_mult
                      * (IF Weekday(demand_date) \in {5, 6} THEN 13 ELSE 10)
                      * DemandCategory.base_demand
        /\ expected > 0

\* a declining product on the last day, at 0.7 of its rate
DecliningOnLastDay ==
    /\ demand_pc = "sell"
    /\ demand_date = WindowDays
    /\ DemandProduct.trend = "declining"
    /\ trend_mult = 1260
    /\ expected > 0

----------------------------------------------------------------------------
(* C21: the conversion probability of every (source, rep) pair             *)

\* quality + close_rate_bonus of a pair, in percent, before the clamp
UnclampedSum(source, rep) == source.quality + rep.close_rate_bonus

\* the sum clamped to [0.05, 0.8]
Clamped(sum) == IF sum < 5 THEN 5 ELSE IF sum > 80 THEN 80 ELSE sum

\* C21: once the rep of a lead is assigned, the conversion probability is
\* quality + close_rate_bonus of the (source, rep) pair clamped to
\* [0.05, 0.8], so it lies in [0.05, 0.8] also when the sum is negative, and
\* it is the threshold the roll of the stage decision tree is compared with.
ConversionProbClamped ==
    draw_pc \in {"stage", "made"} =>
        /\ conversion_prob = Clamped(UnclampedSum(draw_source, sales_rep))
        /\ conversion_prob >= 5
        /\ conversion_prob <= 80
        /\ (draw_pc = "made" /\ roll # <<>>) =>
               drawn_stage[1] \in
                   StageChoices(draw_days,
                                roll[1] < Clamped(UnclampedSum(draw_source, sales_rep)))

\* a lead of Cold Outreach assigned to David Kim (0.08 - 0.10 < 0) whose roll
\* fell under the clamped 0.05 and closed it
NegativeSumConverted ==
    /\ draw_pc = "made"
    /\ UnclampedSum(draw_source, sales_rep) < 0
    /\ conversion_prob = 5
    /\ roll # <<>>
    /\ roll[1] < 5
    /\ drawn_stage = <<"Closed Won">>

----------------------------------------------------------------------------
(* C22: sales are not gated on stock                                       *)

\* C22: a sale is never gated on stock: while the sale loop runs, a
\* transaction of every quantity 1..5 can be drawn also when the stock of the
\* product is below it (or 0), and every sale emits its record with the full
\* quantity drawn, so a record sold from a stock below its quantity reports
\* more units than were in stock, and stock_level 0.
SaleNotGatedOnStock ==
    /\ [](\A q \in Quantities :
            (pc = "sell" /\ sales_cap # 0 /\ product_stock[followed[cursor].name] < q) =>
                ENABLED (LedgerSale /\ transactions'[Len(transactions')].quantity = q))
    /\ [][(pc = "sell" /\ pc' = "sell" /\ cursor' = cursor) =>
            LET name   == followed[cursor].name
                record == transactions'[Len(transactions')]
            IN  /\ record.product_name = name
                /\ record.quantity \in 1..5
                /\ product_stock'[name] = product_stock[name] - record.quantity
                   \/ (product_stock[name] < record.quantity /\ product_stock'[name] = 0)
                /\ record.stock_level = product_stock'[name]]_vars

\* two consecutive records of a product with stock_level 0: the second sold
\* 5 units out of a stock of 0
SoldFromEmptyStock ==
    /\ Len(transactions) = 2
    /\ transactions[1].product_name = transactions[2].product_name
    /\ transactions[1].stock_level = 0
    /\ LastRecord.quantity = 5
    /\ LastRecord.stock_level = 0
    /\ product_stock[LastRecord.product_name] = 0

----------------------------------------------------------------------------
(* C24: the bound of the stock of a product                                *)

\* the largest stock a restock can leave: 199 + 80
RestockCeiling == 199 + 80

\* every stock is at most the larger of its initial value and 279
StockWithinBound ==
    \A i \in 1..Len(followed) :
        LET product == followed[i]
            stock   == product_stock[product.name]
        IN  /\ stock <= Max(BaseStock(product), RestockCeiling)
            /\ product.popularity = "high"   => stock <= 500
            /\ product.popularity = "medium" => stock <= 300
            /\ product.popularity = "low"    => stock <= 279

\* a step of LedgerRestock that adds stock
IsRestock == pc = "restock" /\ pc' = "restock" /\ cursor' = cursor + 1

\* C24: the stock of a product never exceeds the larger of its initial
\* stock and 279: at most 500 for a high, 300 for a medium and 279 for a low
\* popularity product; a Monday restock that raises a stock never lifts it
\* above 279.
StockBounded ==
    /\ []StockWithinBound
    /\ [][IsRestock =>
            \A n \in DOMAIN product_stock :
                product_stock'[n] > product_stock[n] =>
                    product_stock'[n] <= RestockCeiling]_vars

\* a low popularity product restocked from 199 by 80 to more than it started
\* with
LowProductAtCeiling ==
    /\ Len(followed) = 1
    /\ followed[1].popularity = "low"
    /\ product_stock[followed[1].name] = RestockCeiling

----------------------------------------------------------------------------
(* C25: a sale changes only the ledger entry of its product                *)

\* the names CATEGORIES gives its products, 10 per category
CategoryProductNames(i) ==
    {CATEGORIES[i].products[j].name : j \in 1..Len(CATEGORIES[i].products)}

AllProductNames == UNION {CategoryProductNames(i) : i \in 1..Len(CATEGORIES)}

\* a step of LedgerSale
IsLedgerSale == pc = "sell" /\ pc' = "sell" /\ cursor' = cursor

\* C25: the stock ledger has one entry per product name, 50 for CATEGORIES,
\* and its key set is fixed at initialization: a sale of P changes no entry
\* but that of P, and neither a sale nor a restock adds or removes a key.
SaleChangesOnlyItsProduct ==
    /\ Cardinality(AllProductNames) = 50
    /\ [][/\ DOMAIN product_stock' = DOMAIN product_stock
          /\ DOMAIN product_stock = {followed[i].name : i \in 1..Len(followed)}
          /\ IsLedgerSale =>
                \A n \in DOMAIN product_stock :
                    n # followed[cursor].name => product_stock'[n] = product_stock[n]]_vars

\* both products of a two product run have been sold: each sale left the
\* entry of the other product as it was
BothProductsSold ==
    /\ Len(followed) = 2
    /\ product_stock[followed[1].name] = BaseStock(followed[1]) - 5
    /\ product_stock[followed[2].name] = BaseStock(followed[2]) - 1
    /\ Len(transactions) = 2
    /\ transactions[1].product_name = followed[1].name
    /\ transactions[2].product_name = followed[2].name

----------------------------------------------------------------------------
(* C23: the close date of a closed lead may lie after END_DATE             *)

\* C23: the close_date of a closed lead is its lead_date plus 30..90 days,
\* drawn independently of days_in_pipeline and not bounded by END_DATE: for a
\* lead that has been in the pipeline for 60..89 days every delay of the
\* range can be drawn, also those that put close_date after END_DATE.
CloseDateNotBoundedByEnd ==
    /\ \A i \in 1..Len(leads) :
          leads[i].stage \in ClosedStages =>
              /\ leads[i].close_date # None
              /\ leads[i].close_date[1] - leads[i].lead_date \in 30..90
              /\ leads[i].days_in_pipeline >= 60
    /\ (lead_pc = "make" /\ num_leads > 0 /\ (WindowDays - lead_date) \in 60..89) =>
          \A d \in CloseDelays :
              ENABLED (/\ MakeLead
                       /\ leads'[Len(leads')].stage \in ClosedStages
                       /\ leads'[Len(leads')].days_in_pipeline = WindowDays - lead_date
                       /\ leads'[Len(leads')].close_date = <<lead_date + d>>)

\* a lead closed after 89 days in the pipeline whose close_date is the day
\* after END_DATE
LeadClosedAfterEnd ==
    /\ leads # <<>>
    /\ LastLead.stage \in ClosedStages
    /\ LastLead.days_in_pipeline = 89
    /\ LastLead.close_date = <<WindowDays + 1>>

----------------------------------------------------------------------------
(* C26: the random sources are seeded once, at module load                 *)

\* the draws one call of a generator makes from np.random: one count a day
CountsPerCall == SeedDays + 1

\* C26: the two random sources are seeded once, when the module is loaded,
\* and never inside a generator: after the load no step changes the seed of a
\* source or rewinds it. The generators share the sources: generate_lead_data
\* starts from the state generate_retail_data left, and a second call of
\* generate_retail_data in the process starts from the state the first two
\* calls left, so it continues the stream instead of replaying it.
SeededOnceAtLoad ==
    /\ [](\A r \in Runs :
            /\ gen_pc[r] # "load" =>
                  /\ random_state[r].seed = SeedValue
                  /\ np_random_state[r].seed = SeedValue
            /\ (gen_pc[r] = "lead" /\ gen_day[r] = 0) =>
                  np_random_state[r].drawn = CountsPerCall
            /\ (gen_pc[r] = "retail again" /\ gen_day[r] = 0) =>
                  /\ np_random_state[r].drawn = 2 * CountsPerCall
                  /\ random_state[r].drawn >= CountsPerCall)
    /\ [][\A r \in Runs :
            gen_pc[r] # "load" =>
                /\ random_state'[r].seed = random_state[r].seed
                /\ np_random_state'[r].seed = np_random_state[r].seed
                /\ random_state'[r].drawn >= random_state[r].drawn
                /\ np_random_state'[r].drawn >= np_random_state[r].drawn]_vars

\* a process whose second call of generate_retail_data has returned a table
\* that differs from the one its first call returned
SecondTableDiffers ==
    \E r \in Runs :
        /\ gen_pc[r] = "returned"
        /\ saved[r] # <<>>
        /\ retail_df[r] # saved[r][1].retail

----------------------------------------------------------------------------
(* C27: the identifiers are unique, gap-free and in date order             *)

\* the number a sequence of decimal digits denotes
RECURSIVE NumberOf(_)
NumberOf(digits) ==
    IF digits = <<>> THEN 0
    ELSE 10 * NumberOf(SubSeq(digits, 1, Len(digits) - 1)) + digits[Len(digits)]

\* the identifier and the date of a row of either table
RowId(row) == IF "lead_id" \in DOMAIN row THEN row.lead_id ELSE row.transaction_id

RowDate(row) == IF "lead_date" \in DOMAIN row THEN row.lead_date ELSE row.date

\* the prefix and the digits the identifiers of the running generator have
IdPrefix == IF lead_id > 0 THEN "LEAD" ELSE "TXN"

IdWidth == IF lead_id > 0 THEN 5 ELSE 6

\* C27: the identifiers of a table are unique and gap-free: the k-th record
\* appended carries the number k, counted from 1 and written as TXN and six
\* digits or LEAD and five digits, and the records are appended in date
\* order, so the dates do not decrease along the identifiers.
IdsGapFreeInDateOrder ==
    /\ \A k \in 1..Len(id_rows) :
          /\ Head(RowId(id_rows[k])) = IdPrefix
          /\ Len(Tail(RowId(id_rows[k]))) = IdWidth
          /\ NumberOf(Tail(RowId(id_rows[k]))) = k
    /\ \A i, j \in 1..Len(id_rows) :
          i < j => /\ RowId(id_rows[i]) # RowId(id_rows[j])
                   /\ RowDate(id_rows[i]) <= RowDate(id_rows[j])

\* ten transactions have been appended over more than one day: the tenth is
\* TXN000010
TenthTransaction ==
    /\ Len(id_rows) = 10
    /\ RowId(id_rows[10]) = <<"TXN", 0, 0, 0, 0, 1, 0>>
    /\ RowDate(id_rows[1]) < RowDate(id_rows[10])

----------------------------------------------------------------------------
(* C28: the day loops terminate after one pass over the window             *)

\* both generators have left their while loop
BothLoopsDone == demand_pc = "done" /\ lead_pc = "done"

\* the dates the loops and the records have
DatesInWindow ==
    /\ demand_pc \in {"season", "expect", "sell", "day"} => demand_date \in 0..WindowDays
    /\ lead_pc \in {"count", "make"} => lead_date \in 0..WindowDays
    /\ demand_pc = "done" => demand_date = WindowDays + 1
    /\ lead_pc = "done" => lead_date = WindowDays + 1
    /\ \A i \in 1..Len(leads) :
          /\ leads[i].lead_date \in 0..WindowDays
          /\ leads[i].days_in_pipeline = WindowDays - leads[i].lead_date
          /\ leads[i].days_in_pipeline \in 0..180

\* C28: both day loops terminate, after visiting every day from START_DATE
\* to END_DATE once and in increasing order (181 iterations: the date starts
\* at day 0, only the end of an iteration changes it, by one day, and the
\* loop is left at day 181); inside the loops days_from_start is in 0..180,
\* and every lead has a lead_date in the window and days_in_pipeline =
\* END_DATE - lead_date, in 0..180.
DayLoopsTerminate ==
    /\ <>BothLoopsDone
    /\ []DatesInWindow
    /\ [][/\ demand_date' # demand_date =>
                demand_pc = "day" /\ demand_date' = demand_date + 1
          /\ lead_date' # lead_date =>
                lead_pc = "make" /\ num_leads = 0 /\ lead_date' = lead_date + 1]_vars

\* both loops have been left, each on the day after END_DATE
LoopsLeftAfterLastDay ==
    /\ BothLoopsDone
    /\ demand_date = 181
    /\ lead_date = 181

----------------------------------------------------------------------------
(* C29: the trend filter never selects the seasonal records                *)

\* the options the Product Trend filter has according to the page
TrendOptions == {"all", "hot", "growing", "stable", "declining"}

\* the records of an array with product_trend 'seasonal'
SeasonalRecords(data) ==
    {i \in 1..Len(data) : data[i].record.product_trend = "seasonal"}

\* C29: the Product Trend filter of the retail dashboard offers all, hot,
\* growing, stable and declining whatever the data are, also when the table
\* has records of the trend 'seasonal': no sequence of filter operations sets
\* the trend filter to 'seasonal', and the seasonal records are among the
\* filtered records only while the trend filter is 'all'.
TrendFilterNeverSeasonal ==
    dashboard = "retail" =>
        /\ Options("retail", "trend", rawData) = TrendOptions
        /\ selects.trend \in TrendOptions
        /\ currentFilters.trend \in TrendOptions
        /\ SeasonalRecords(filteredData) # {} => currentFilters.trend = "all"

\* the table has a seasonal record and a stable one, and the trend filter,
\* set to stable, shows the stable record only
SeasonalRecordFilteredOut ==
    /\ dashboard = "retail"
    /\ dash_pc = "ready"
    /\ SeasonalRecords(rawData) # {}
    /\ currentFilters.trend = "stable"
    /\ filteredData # <<>>
    /\ SeasonalRecords(filteredData) = {}

----------------------------------------------------------------------------
(* C30: the dashboards directory exists after the missing-input return     *)

\* C30: main creates the dashboards directory before it tests whether the
\* inputs exist: its first step leaves the directory in place, so when an
\* input is missing and main returns after the diagnostic, the dashboards
\* directory exists, and is empty of the HTML files main writes.
DashboardsDirMadeBeforeCheck ==
    /\ [](/\ render_pc \in {"check", "returned"} => dashboards.dir
          /\ (render_pc = "returned" /\ InputsMissing(data_files)) =>
                /\ dashboards.dir
                /\ dashboards.retail = <<>>
                /\ dashboards.lead = <<>>
                /\ writes = {})
    /\ [][(render_pc = "start" /\ render_pc' # render_pc) =>
            /\ render_pc' = "check"
            /\ dashboards'.dir
            /\ dashboards'.retail = dashboards.retail
            /\ dashboards'.lead = dashboards.lead]_vars

\* the first run of main over a data directory without the retail table has
\* returned: the dashboards directory is there and holds no dashboard
EmptyDashboardsDirLeft ==
    /\ invocations = 1
    /\ data_files.retail = <<>>
    /\ render_pc = "returned"
    /\ dashboards = [dir |-> TRUE, retail |-> <<>>, lead |-> <<>>]

=============================================================================
